---- MODULE Spec2Model ----
(***************************************************************************)
(* gitbib: the citation pipeline of gitbib2.main, from the merged Entry    *)
(* list (main step 4) to the per-file primary/secondary sets.              *)
(*                                                                         *)
(*   main:540       indices = _create_indices(entries)                     *)
(*   main:543       entries = [_resolve_doi_cites(e, indices.by_doi) ...]  *)
(*   main:546-560   description citations are appended to entry.cites      *)
(*   main:561       indices = _create_indices(entries)                     *)
(*   main:564-576   the link loop builds cite_network, one citation a step *)
(*   main:578       indices = _create_indices_2(indices, cite_network)     *)
(*                                                                         *)
(* Strings are one namespace (Python str): an ident, a DOI and an arXiv id *)
(* may be the same string, so the value sets below overlap on purpose.     *)
(* A dict value or list element that is an Entry object is modelled as a   *)
(* reference: the entry's position in the entries list.                    *)
(*                                                                         *)
(* Further parts, each with its own specification over its own variable:   *)
(*   gb  gitbib.py: Gitbib.__init__ inside the session scope of            *)
(*       command_line.main (cache, stubs, resolve_crossrefs), the walks    *)
(*       descendants and render_tree, and the generator Gitbib.renderers   *)
(*   sc  the scanners of a text: description.parse_description and         *)
(*       gitbib.markdownify                                                *)
(*   g2  gitbib2.py around the pipeline: the two cache scopes of main,     *)
(*       merge_title, and the sorted listings of Indices                   *)
(***************************************************************************)
EXTENDS Integers, Sequences, FiniteSets, TLC

VARIABLES
    entries,        \* main's `entries`: the list of merged Entry records
    indices,        \* main's `indices`: the Indices record
    cite_network,   \* main's `cite_network`: the edges, in insertion order
    stdout,         \* the lines printed by _create_indices, in order
    pc,             \* the statement of main that runs next
    li, lj,         \* the link loop's position: entry li, citation lj
    gb,             \* gitbib.py: the state of Gitbib.__init__ and renderers
    sc,             \* a text and what parse_description or markdownify makes of it
    g2              \* gitbib2.py before and after the citation pipeline: the
                    \* fetches of main, a merge_* function, a sorted listing

vars == <<entries, indices, cite_network, stdout, pc, li, lj, gb, sc, g2>>

\* The value of a variable whose part of the program does not run
Idle == "idle"

\* The variables that gitbib2.main leaves alone
not_main == <<gb, sc, g2>>
NotMainIdle == gb = Idle /\ sc = Idle /\ g2 = Idle

\* Python's None in a field that holds a string
None == "None"
\* Optional[int]: None is the empty tuple, the integer n is <<n>>
NoNum == <<>>
Num(n) == <<n>>

---------------------------------------------------------------------------
(* Bounds of the model's inputs *)

\* entries in an input of the file-partition family
MaxEntries == 3
\* citations, over all its entries, in an input of the file-partition family
MaxCites == 3
\* entries in an input of the identifier family
MaxDoiEntries == 2
\* citations, over all its entries, in an input of the identifier family
MaxDoiCites == 2
\* citation markers in a description
MaxMarkers == 1

IdentOrder == <<"a", "b", "c">>
Idents == {IdentOrder[k] : k \in 1..Len(IdentOrder)}
Dois == {"a", "b"}
ArxivIds == {"a"}
FnOrder == <<"f1", "f2">>
Fns == {FnOrder[k] : k \in 1..Len(FnOrder)}

---------------------------------------------------------------------------
(* Data model *)

TargetIdent(ident, target_type) == [ident |-> ident, target_type |-> target_type]

Citation(target_ident, num, why) ==
    [target_ident |-> target_ident, num |-> num, why |-> why]

\* A citation part of a parsed description (description.Citation); the text
\* parts between the markers play no role after parsing.
DescriptionCitation(ident, num) == [ident |-> ident, num |-> num]

\* The fields of Entry that the pipeline after the merge step reads.
Entry(ident, fn, doi, arxiv, description, cites) ==
    [ident |-> ident, fn |-> fn, doi |-> doi, arxiv |-> arxiv,
     description |-> description, cites |-> cites]

Range(s) == {s[k] : k \in 1..Len(s)}

EmptyDict == [k \in {} |-> None]

---------------------------------------------------------------------------
(* _create_indices *)

\* add_with_check where the last entry of a key wins
add_with_check_last(d, k, e) ==
    IF k = None THEN d
    ELSE IF k \in DOMAIN d THEN [d EXCEPT ![k] = e]
    ELSE d @@ (k :> e)

\* add_with_check without its test for a None key
add_with_check_none(d, k, e) ==
    IF k \in DOMAIN d THEN d
    ELSE d @@ (k :> e)

\* add_with_check(d, k, e, dname): a None key adds nothing, a key already
\* present is reported and keeps its first value.
add_with_check(d, k, e) ==
    IF k = None THEN d
    ELSE IF k \in DOMAIN d THEN d
    ELSE d @@ (k :> e)

\* by_fn[entry.fn] += [entry] on a defaultdict(list)
by_fn_add(d, fn, e) ==
    IF fn \in DOMAIN d THEN [d EXCEPT ![fn] = Append(@, e)]
    ELSE d @@ (fn :> <<e>>)

\* The line add_with_check prints for a key already present: "{k} already in
\* {dname}: Trying to add {e.ident} in {e.fn}. Found {other_e.ident} in ..."
add_with_check_print(d, k, e, dname) ==
    IF k # None /\ k \in DOMAIN d
    THEN <<[k |-> k, dname |-> dname, e |-> e, other_e |-> d[k]]>>
    ELSE <<>>

\* The loop over the entries: the indices built so far and the lines printed.
RECURSIVE create_indices_loop(_, _, _, _)
create_indices_loop(es, i, ix, out) ==
    IF i > Len(es) THEN [indices |-> ix, printed |-> out]
    ELSE create_indices_loop(es, i + 1,
            [by_ident |-> add_with_check(ix.by_ident, es[i].ident, i),
             by_doi |-> add_with_check(ix.by_doi, es[i].doi, i),
             by_arxivid |-> add_with_check(ix.by_arxivid, es[i].arxiv, i),
             by_fn |-> by_fn_add(ix.by_fn, es[i].fn, i),
             secondary_by_fn |-> ix.secondary_by_fn],
            out \o add_with_check_print(ix.by_ident, es[i].ident, i, "by_ident")
                \o add_with_check_print(ix.by_doi, es[i].doi, i, "by_doi")
                \o add_with_check_print(ix.by_arxivid, es[i].arxiv, i, "by_arxivid"))

NoIndices ==
    [by_ident |-> EmptyDict, by_doi |-> EmptyDict, by_arxivid |-> EmptyDict,
     by_fn |-> EmptyDict, secondary_by_fn |-> EmptyDict]

_create_indices(es) == create_indices_loop(es, 1, NoIndices, <<>>).indices

\* What a call of _create_indices prints
_create_indices_printed(es) == create_indices_loop(es, 1, NoIndices, <<>>).printed

---------------------------------------------------------------------------
(* _resolve_doi_cites *)

\* resolve_doi_cite without the test of the target type
resolve_doi_cite_any(cite, by_doi, es) ==
    IF cite.target_ident.ident \in DOMAIN by_doi
    THEN [cite EXCEPT !.target_ident =
            TargetIdent(es[by_doi[cite.target_ident.ident]].ident, "ident")]
    ELSE cite

\* resolve_doi_cite that changes the type and keeps the DOI as the ident
resolve_doi_cite_keep(cite, by_doi, es) ==
    IF cite.target_ident.target_type = "doi" /\ cite.target_ident.ident \in DOMAIN by_doi
    THEN [cite EXCEPT !.target_ident = TargetIdent(cite.target_ident.ident, "ident")]
    ELSE cite

resolve_doi_cite(cite, by_doi, es) ==
    IF cite.target_ident.target_type = "doi" /\ cite.target_ident.ident \in DOMAIN by_doi
    THEN [cite EXCEPT !.target_ident =
            TargetIdent(es[by_doi[cite.target_ident.ident]].ident, "ident")]
    ELSE cite

_resolve_doi_cites(entry, by_doi, es) ==
    [entry EXCEPT !.cites =
        [k \in 1..Len(entry.cites) |-> resolve_doi_cite(entry.cites[k], by_doi, es)]]

---------------------------------------------------------------------------
(* main:546-560, the citations of the description *)

description_citation(part) ==
    Citation(TargetIdent(part.ident, "ident"), part.num, "description")

append_if_new(cites, citation) ==
    IF citation \in Range(cites) THEN cites ELSE Append(cites, citation)

RECURSIVE extract_loop(_, _, _)
extract_loop(parts, k, cites) ==
    IF k > Len(parts) THEN cites
    ELSE extract_loop(parts, k + 1, append_if_new(cites, description_citation(parts[k])))

\* extract_citations that leaves the cites as they were loaded
extract_citations_skip(entry) == entry

extract_citations(entry) ==
    [entry EXCEPT !.cites = extract_loop(entry.description, 1, entry.cites)]

---------------------------------------------------------------------------
(* main:564-576, the link loop *)

TargetTypes == {"doi", "arxivid", "ident"}

\* nx.DiGraph.add_edge: an edge already present is not added again
add_edge(g, u, v) == IF <<u, v>> \in Range(g) THEN g ELSE Append(g, <<u, v>>)

\* `n in cite_network`: add_edge adds both of its ends as nodes
Nodes(g) == {e[1] : e \in Range(g)} \cup {e[2] : e \in Range(g)}

RECURSIVE successors_loop(_, _, _)
successors_loop(g, u, k) ==
    IF k > Len(g) THEN <<>>
    ELSE IF g[k][1] = u THEN <<g[k][2]>> \o successors_loop(g, u, k + 1)
    ELSE successors_loop(g, u, k + 1)

\* cite_network.successors(u), in the order the edges were added
successors(g, u) == successors_loop(g, u, 1)

\* link_cite that looks an arXiv id up in by_doi
link_cite_arxiv_by_doi(g, entry, t, ix, es) ==
    IF t.target_type = "doi" /\ t.ident \in DOMAIN ix.by_doi
    THEN add_edge(g, entry.ident, es[ix.by_doi[t.ident]].ident)
    ELSE IF t.target_type = "arxivid" /\ t.ident \in DOMAIN ix.by_doi
    THEN add_edge(g, entry.ident, es[ix.by_doi[t.ident]].ident)
    ELSE IF t.target_type = "ident" /\ t.ident \in DOMAIN ix.by_ident
    THEN add_edge(g, entry.ident, es[ix.by_ident[t.ident]].ident)
    ELSE g

\* link_cite with the cited string, not the indexed entry's ident, as the
\* edge's target
link_cite_raw(g, entry, t, ix, es) ==
    IF t.target_type = "doi" /\ t.ident \in DOMAIN ix.by_doi
    THEN add_edge(g, entry.ident, t.ident)
    ELSE IF t.target_type = "arxivid" /\ t.ident \in DOMAIN ix.by_arxivid
    THEN add_edge(g, entry.ident, t.ident)
    ELSE IF t.target_type = "ident" /\ t.ident \in DOMAIN ix.by_ident
    THEN add_edge(g, entry.ident, t.ident)
    ELSE g

\* link_cite that adds the edge of an ident citation without looking the
\* ident up
link_cite_unchecked(g, entry, t, ix, es) ==
    IF t.target_type = "doi" /\ t.ident \in DOMAIN ix.by_doi
    THEN add_edge(g, entry.ident, es[ix.by_doi[t.ident]].ident)
    ELSE IF t.target_type = "arxivid" /\ t.ident \in DOMAIN ix.by_arxivid
    THEN add_edge(g, entry.ident, es[ix.by_arxivid[t.ident]].ident)
    ELSE IF t.target_type = "ident"
    THEN add_edge(g, entry.ident, t.ident)
    ELSE g

\* The edge one citation of `entry` adds (the if/elif chain of main:571-576).
link_cite(g, entry, t, ix, es) ==
    IF t.target_type = "doi" /\ t.ident \in DOMAIN ix.by_doi
    THEN add_edge(g, entry.ident, es[ix.by_doi[t.ident]].ident)
    ELSE IF t.target_type = "arxivid" /\ t.ident \in DOMAIN ix.by_arxivid
    THEN add_edge(g, entry.ident, es[ix.by_arxivid[t.ident]].ident)
    ELSE IF t.target_type = "ident" /\ t.ident \in DOMAIN ix.by_ident
    THEN add_edge(g, entry.ident, es[ix.by_ident[t.ident]].ident)
    ELSE g

\* The loop run to its end from entry i, citation j: the graph, or the
\* ValueError of a citation whose target type is not known.
RECURSIVE link_loop(_, _, _, _, _)
link_loop(es, ix, i, j, g) ==
    IF i > Len(es) THEN g
    ELSE IF j > Len(es[i].cites) THEN link_loop(es, ix, i + 1, 1, g)
    ELSE IF es[i].cites[j].target_ident.target_type \notin TargetTypes THEN "ValueError"
    ELSE link_loop(es, ix, i, j + 1,
                   link_cite(g, es[i], es[i].cites[j].target_ident, ix, es))

\* The position of the loop's next citation at or after entry i, citation j.
RECURSIVE next_cite(_, _, _)
next_cite(es, i, j) ==
    IF i > Len(es) THEN <<i, 1>>
    ELSE IF j <= Len(es[i].cites) THEN <<i, j>>
    ELSE next_cite(es, i + 1, 1)

---------------------------------------------------------------------------
(* _create_indices_2 *)

\* children_loop without the `child.fn == fn` test
RECURSIVE children_loop_all(_, _, _, _, _)
children_loop_all(succ, k, fn, ix, es) ==
    IF k > Len(succ) THEN <<>>
    ELSE <<ix.by_ident[succ[k]]>> \o children_loop_all(succ, k + 1, fn, ix, es)

RECURSIVE children_loop(_, _, _, _, _)
children_loop(succ, k, fn, ix, es) ==
    IF k > Len(succ) THEN <<>>
    ELSE LET child == ix.by_ident[succ[k]]
         IN  IF es[child].fn = fn
             THEN children_loop(succ, k + 1, fn, ix, es)
             ELSE <<child>> \o children_loop(succ, k + 1, fn, ix, es)

RECURSIVE secondary_loop(_, _, _, _, _, _)
secondary_loop(primary, k, fn, ix, g, es) ==
    IF k > Len(primary) THEN <<>>
    ELSE IF es[primary[k]].ident \notin Nodes(g)
    THEN secondary_loop(primary, k + 1, fn, ix, g, es)
    ELSE children_loop(successors(g, es[primary[k]].ident), 1, fn, ix, es)
            \o secondary_loop(primary, k + 1, fn, ix, g, es)

\* indices.by_ident[child_ident] raises KeyError for an ident that is no key
lookup_fails(ix, g, es) ==
    \E fn \in DOMAIN ix.by_fn : \E e \in Range(ix.by_fn[fn]) :
        \E c \in Range(successors(g, es[e].ident)) : c \notin DOMAIN ix.by_ident

_create_indices_2(ix, g, es) ==
    [ix EXCEPT !.secondary_by_fn =
        [fn \in DOMAIN ix.by_fn |-> secondary_loop(ix.by_fn[fn], 1, fn, ix, g, es)]]

---------------------------------------------------------------------------
(* The inputs: the merged entry lists of main step 4 *)

MaxOf(S) == CHOOSE x \in S : \A y \in S : y <= x

\* _load_user_data reads the files in order and a YAML mapping has no key
\* twice: the entries of a file are contiguous, no file is empty, and an
\* ident occurs at most once in a file.  Idents are named in order of first
\* use.  s[i] = <<k, f>>: entry i has ident IdentOrder[k], file FnOrder[f].
IsSkeleton(s, n) ==
    /\ s[1] = <<1, 1>>
    /\ \A i \in 2..n :
        /\ s[i][2] \in {s[i - 1][2], s[i - 1][2] + 1}
        /\ s[i][1] <= 1 + MaxOf({s[h][1] : h \in 1..(i - 1)})
    /\ \A i, h \in 1..n : (i # h /\ s[i][2] = s[h][2]) => s[i][1] # s[h][1]

Skeletons(n) ==
    {s \in [1..n -> (1..Len(IdentOrder)) \X (1..Len(FnOrder))] : IsSkeleton(s, n)}

\* merge_cites: the Crossref references (type doi, why crossref) come before
\* the user's cites (type ident).  p[k] = <<i, c>>: entry i has citation c;
\* the citations are listed entry by entry.
IsPlacement(p) ==
    \A k \in 1..(Len(p) - 1) :
        /\ p[k][1] <= p[k + 1][1]
        /\ (p[k][1] = p[k + 1][1] /\ p[k + 1][2].why = "crossref")
              => p[k][2].why = "crossref"

Placements(n, maxc, targets) ==
    UNION {{p \in [1..c -> (1..n) \X targets] : IsPlacement(p)} : c \in 0..maxc}

cites_of(p, i) ==
    LET own == SelectSeq(p, LAMBDA x : x[1] = i)
    IN  [k \in 1..Len(own) |-> own[k][2]]

merge(s, dois, arxivs, descs, p) ==
    [i \in DOMAIN s |->
        Entry(IdentOrder[s[i][1]], FnOrder[s[i][2]], dois[i], arxivs[i], descs[i],
              cites_of(p, i))]

Nones(n) == [i \in 1..n |-> None]
NoDescriptions(n) == [i \in 1..n |-> <<>>]

UserCites(ids) == {Citation(TargetIdent(x, "ident"), NoNum, None) : x \in ids}
CrossrefCites(ds) == {Citation(TargetIdent(x, "doi"), NoNum, "crossref") : x \in ds}

\* The file-partition family: entries without DOI, citing by ident.
PartitionInput(es) ==
    \E n \in 1..MaxEntries : \E s \in Skeletons(n) :
        \E p \in Placements(n, MaxCites, UserCites(Idents)) :
            es = merge(s, Nones(n), Nones(n), NoDescriptions(n), p)

\* The identifier family: entries with DOIs, citing by DOI and by ident.
DoiInput(es) ==
    \E n \in 1..MaxDoiEntries : \E s \in Skeletons(n) : \E d \in [1..n -> Dois \cup {None}] :
        \E p \in Placements(n, MaxDoiCites, CrossrefCites(Dois) \cup UserCites(Dois)) :
            es = merge(s, d, Nones(n), NoDescriptions(n), p)

\* The arXiv family: entries with arXiv ids (main makes no arXiv citation).
ArxivInput(es) ==
    \E n \in 1..MaxDoiEntries : \E s \in Skeletons(n) :
        \E x \in [1..n -> ArxivIds \cup {None}] :
            \E p \in Placements(n, MaxMarkers, UserCites(ArxivIds)) :
                es = merge(s, Nones(n), x, NoDescriptions(n), p)

\* The description family: citation markers in the descriptions.
Markers == {DescriptionCitation("a", NoNum), DescriptionCitation("b", Num(1))}
Descriptions == UNION {[1..m -> Markers] : m \in 0..MaxMarkers}
DescribedCites ==
    {Citation(TargetIdent("a", "ident"), NoNum, "description"),
     Citation(TargetIdent("b", "ident"), Num(1), None)}

DescriptionInput(es) ==
    \E n \in 1..MaxDoiEntries : \E s \in Skeletons(n) : \E d \in [1..n -> Descriptions] :
        \E p \in Placements(n, MaxMarkers, DescribedCites) :
            es = merge(s, Nones(n), Nones(n), d, p)

Input(es) == PartitionInput(es) \/ DoiInput(es) \/ ArxivInput(es) \/ DescriptionInput(es)

\* The link family: entry lists as the Entry and Citation types allow them,
\* with citations of every target type, one of them unknown to the link loop.
LinkTypes == {"doi", "arxivid", "ident", "url"}
TypedCites == {Citation(TargetIdent("a", t), NoNum, None) : t \in LinkTypes}

LinkInput(es) ==
    \E n \in 1..MaxDoiEntries : \E s \in Skeletons(n) :
        \E d \in [1..n -> {"a", None}] : \E x \in [1..n -> ArxivIds \cup {None}] :
            \E p \in Placements(n, MaxDoiCites, TypedCites) :
                es = merge(s, d, x, NoDescriptions(n), p)

---------------------------------------------------------------------------
(* The pipeline *)

Start ==
    /\ indices = NoIndices
    /\ cite_network = <<>>
    /\ stdout = <<>>
    /\ pc = "index"
    /\ li = 0
    /\ lj = 0
    /\ NotMainIdle

\* main after step 4, on the entry lists the merge step can make
Init == Input(entries) /\ Start

\* the same pipeline on every entry list of the bounded Entry type
InitLink == (Input(entries) \/ LinkInput(entries)) /\ Start

\* main:540
CreateIndices ==
    /\ pc = "index"
    /\ indices' = _create_indices(entries)
    /\ stdout' = stdout \o _create_indices_printed(entries)
    /\ pc' = "resolve"
    /\ UNCHANGED <<entries, cite_network, li, lj>>
    /\ UNCHANGED not_main

\* main:543
ResolveDoiCites ==
    /\ pc = "resolve"
    /\ entries' = [i \in DOMAIN entries |->
                        _resolve_doi_cites(entries[i], indices.by_doi, entries)]
    /\ pc' = "extract"
    /\ UNCHANGED <<indices, cite_network, stdout, li, lj>>
    /\ UNCHANGED not_main

\* main:546-560
ExtractCitations ==
    /\ pc = "extract"
    /\ entries' = [i \in DOMAIN entries |-> extract_citations(entries[i])]
    /\ pc' = "reindex"
    /\ UNCHANGED <<indices, cite_network, stdout, li, lj>>
    /\ UNCHANGED not_main

\* main:561 and main:564, the start of the link loop
Reindex ==
    /\ pc = "reindex"
    /\ indices' = _create_indices(entries)
    /\ stdout' = stdout \o _create_indices_printed(entries)
    /\ cite_network' = <<>>
    /\ li' = next_cite(entries, 1, 1)[1]
    /\ lj' = next_cite(entries, 1, 1)[2]
    /\ pc' = "link"
    /\ UNCHANGED entries
    /\ UNCHANGED not_main

\* LinkCite that passes over a citation of unknown target type
LinkCiteSkip ==
    /\ pc = "link"
    /\ li <= Len(entries)
    /\ LET t == entries[li].cites[lj].target_ident
       IN  cite_network' = link_cite(cite_network, entries[li], t, indices, entries)
    /\ li' = next_cite(entries, li, lj + 1)[1]
    /\ lj' = next_cite(entries, li, lj + 1)[2]
    /\ pc' = "link"
    /\ UNCHANGED <<entries, indices, stdout>>
    /\ UNCHANGED not_main

\* main:567-576, one citation of the link loop
LinkCite ==
    /\ pc = "link"
    /\ li <= Len(entries)
    /\ LET t == entries[li].cites[lj].target_ident
       IN  IF t.target_type \notin TargetTypes
           THEN /\ pc' = "ValueError"
                /\ UNCHANGED <<cite_network, li, lj>>
           ELSE /\ cite_network' = link_cite(cite_network, entries[li], t, indices, entries)
                /\ li' = next_cite(entries, li, lj + 1)[1]
                /\ lj' = next_cite(entries, li, lj + 1)[2]
                /\ pc' = "link"
    /\ UNCHANGED <<entries, indices, stdout>>
    /\ UNCHANGED not_main

\* main:578
CreateIndices2 ==
    /\ pc = "link"
    /\ li > Len(entries)
    /\ IF lookup_fails(indices, cite_network, entries)
       THEN /\ pc' = "KeyError"
            /\ UNCHANGED indices
       ELSE /\ indices' = _create_indices_2(indices, cite_network, entries)
            /\ pc' = "done"
    /\ UNCHANGED <<entries, cite_network, stdout, li, lj>>
    /\ UNCHANGED not_main

Next ==
    \/ CreateIndices
    \/ ResolveDoiCites
    \/ ExtractCitations
    \/ Reindex
    \/ LinkCite
    \/ CreateIndices2

Spec == Init /\ [][Next]_vars

SpecLink == InitLink /\ [][Next]_vars

---------------------------------------------------------------------------
(* Properties *)

Refs == 1..Len(entries)
Edges == Range(cite_network)
Primary(fn) == Range(indices.by_fn[fn])
Secondary(fn) == Range(indices.secondary_by_fn[fn])

\* Entry A has an edge to entry E in the citation graph (a graph over idents)
HasEdge(A, E) == <<entries[A].ident, entries[E].ident>> \in Edges

\* C1: after _create_indices_2, no entry of a file's secondary set is in the
\* file's primary set, also when an entry cites itself or cites another
\* entry of its own file.
C1_SecondaryExclusive ==
    pc = "done" =>
        \A fn \in DOMAIN indices.secondary_by_fn : Secondary(fn) \cap Primary(fn) = {}

\* Entry A has a citation of type ident to the ident of entry E
CitesIdent(A, E) ==
    \E k \in 1..Len(entries[A].cites) :
        entries[A].cites[k].target_ident = TargetIdent(entries[E].ident, "ident")

UniqueIdents == \A A, B \in Refs : entries[A].ident = entries[B].ident => A = B

\* C1 witness: idents are unique and an entry cites itself, an entry of its
\* own file and an entry of another file, which is the file's secondary set.
C1_Witness ==
    /\ pc = "done"
    /\ UniqueIdents
    /\ \E fn \in DOMAIN indices.secondary_by_fn : \E A, B \in Primary(fn) :
        /\ A # B
        /\ CitesIdent(A, A)
        /\ CitesIdent(A, B)
        /\ \E E \in Secondary(fn) : CitesIdent(A, E)

\* C2: each entry appears at most once in a file's secondary list, even when
\* two primary entries of the file cite the same entry of another file.
C2_SecondaryNoDuplicates ==
    (pc = "done" /\ UniqueIdents) =>
        \A fn \in DOMAIN indices.secondary_by_fn :
            \A h, k \in 1..Len(indices.secondary_by_fn[fn]) :
                indices.secondary_by_fn[fn][h] = indices.secondary_by_fn[fn][k] => h = k

\* C3: a file's secondary set is exactly the entries of other files that
\* some entry of the file has a direct edge to; an entry is in it only if an
\* entry of the file cites it.
C3_SecondaryExact ==
    pc = "done" =>
        \A fn \in DOMAIN indices.secondary_by_fn :
            /\ Secondary(fn) =
                {E \in Refs : /\ entries[E].fn # fn
                              /\ \E A \in Refs : entries[A].fn = fn /\ HasEdge(A, E)}
            /\ \A E \in Secondary(fn) :
                \E A \in Refs : \E k \in 1..Len(entries[A].cites) :
                    /\ entries[A].fn = fn
                    /\ entries[A].cites[k].target_ident.ident = entries[E].ident

\* The link loop has run to its end
Linked == pc = "done" \/ (pc = "link" /\ li > Len(entries))

\* Citation c resolves to entry B: its target is a key of the index of its
\* target type, and B is the value there
ResolvesTo(c, B) ==
    \/ /\ c.target_ident.target_type = "doi"
       /\ c.target_ident.ident \in DOMAIN indices.by_doi
       /\ indices.by_doi[c.target_ident.ident] = B
    \/ /\ c.target_ident.target_type = "arxivid"
       /\ c.target_ident.ident \in DOMAIN indices.by_arxivid
       /\ indices.by_arxivid[c.target_ident.ident] = B
    \/ /\ c.target_ident.target_type = "ident"
       /\ c.target_ident.ident \in DOMAIN indices.by_ident
       /\ indices.by_ident[c.target_ident.ident] = B

\* C4: the graph built by the link loop has the edge a -> b exactly when an
\* entry with ident a has a citation that resolves, through the index of its
\* target type, to an entry with ident b.
C4_EdgeIffResolves ==
    Linked =>
        Edges = {<<entries[A].ident, entries[B].ident>> : <<A, B>> \in
                    {x \in Refs \X Refs :
                        \E k \in 1..Len(entries[x[1]].cites) :
                            ResolvesTo(entries[x[1]].cites[k], x[2])}}

\* C4 witness: the loop is over; a citation by arXiv id has resolved to an
\* entry whose ident is not the cited string, and a citation has no entry.
C4_Witness ==
    /\ Linked
    /\ \E A, B \in Refs : \E k \in 1..Len(entries[A].cites) :
        /\ entries[A].cites[k].target_ident.target_type = "arxivid"
        /\ ResolvesTo(entries[A].cites[k], B)
        /\ HasEdge(A, B)
        /\ entries[B].ident # entries[A].cites[k].target_ident.ident
    /\ \E A \in Refs : \E k \in 1..Len(entries[A].cites) :
        \A B \in Refs : ~ResolvesTo(entries[A].cites[k], B)

Cite(A, k) == entries[A].cites[k]
CiteRefs == UNION {{<<A, k>> : k \in 1..Len(entries[A].cites)} : A \in Refs}

\* The resolution steps run once more on the current entries: main:543 with
\* the current by_doi, then the link loop main:564-576 on fresh indices
SecondResolve ==
    [A \in Refs |-> _resolve_doi_cites(entries[A], indices.by_doi, entries)]
SecondLink == link_loop(SecondResolve, _create_indices(SecondResolve), 1, 1, <<>>)

\* C5: resolution is idempotent: a second run of the DOI rewriting and of the
\* link loop on the resolved entries leaves every citation list as it is and
\* gives the same edge set.
C5_ResolveIdempotent ==
    pc = "done" => (SecondResolve = entries /\ Range(SecondLink) = Edges)

\* C5 witness: the run is over, a DOI citation was rewritten and gave an
\* edge, and a citation of type ident names a string that is a DOI of the
\* index.
C5_Witness ==
    /\ pc = "done"
    /\ \E x \in CiteRefs :
        /\ Cite(x[1], x[2]).why = "crossref"
        /\ Cite(x[1], x[2]).target_ident.target_type = "ident"
        /\ <<entries[x[1]].ident, Cite(x[1], x[2]).target_ident.ident>> \in Edges
    /\ \E x \in CiteRefs :
        /\ Cite(x[1], x[2]).why = None
        /\ Cite(x[1], x[2]).target_ident.target_type = "ident"
        /\ Cite(x[1], x[2]).target_ident.ident \in DOMAIN indices.by_doi
        /\ entries[indices.by_doi[Cite(x[1], x[2]).target_ident.ident]].ident
              # Cite(x[1], x[2]).target_ident.ident

\* C6: a citation of type doi whose DOI is a key of by_doi is rewritten to
\* type ident with the indexed entry's ident, and the link loop adds the edge
\* from its owner to that ident; one whose DOI is no key stays as it is, adds
\* no edge, and the loop goes on to the next citation.
C6_DoiCitation ==
    [][/\ pc = "resolve" =>
            \A x \in CiteRefs :
                LET c == Cite(x[1], x[2])
                IN  c.target_ident.target_type = "doi" =>
                        IF c.target_ident.ident \in DOMAIN indices.by_doi
                        THEN entries'[x[1]].cites[x[2]] =
                                Citation(TargetIdent(
                                    entries[indices.by_doi[c.target_ident.ident]].ident,
                                    "ident"), c.num, c.why)
                        ELSE entries'[x[1]].cites[x[2]] = c
       /\ (pc = "link" /\ li <= Len(entries)) =>
            LET c == Cite(li, lj)
            IN  /\ (c.why = "crossref" /\ c.target_ident.target_type = "ident") =>
                        <<entries[li].ident, c.target_ident.ident>> \in Range(cite_network')
                /\ c.target_ident.target_type = "doi" =>
                        /\ c.target_ident.ident \notin DOMAIN indices.by_doi
                        /\ cite_network' = cite_network
                        /\ pc' = "link"
                        /\ <<li', lj'>> = next_cite(entries, li, lj + 1)
      ]_vars

\* C6 witness: the loop has passed a DOI citation that no entry has, which is
\* still of type doi, and reached a rewritten one of the same entry, whose
\* target entry has another ident than the DOI string.
C6_Witness ==
    /\ pc = "link"
    /\ li <= Len(entries)
    /\ lj > 1
    /\ Cite(li, lj - 1).target_ident.target_type = "doi"
    /\ Cite(li, lj).why = "crossref"
    /\ Cite(li, lj).target_ident.target_type = "ident"
    /\ Cite(li, lj).target_ident.ident \notin DOMAIN indices.by_doi

C8_UnknownTypeFatal ==
    [][/\ pc # "ValueError"
       /\ pc' = "ValueError" => (pc = "link" /\ li <= Len(entries))
       /\ (pc = "link" /\ li <= Len(entries)) =>
            (pc' = "ValueError" <=>
                Cite(li, lj).target_ident.target_type \notin {"doi", "arxivid", "ident"})
      ]_vars

\* C8 witness: the run has ended with ValueError at the second citation of an
\* entry, after its first citation, of a known type, gave an edge.
C8_Witness ==
    /\ pc = "ValueError"
    /\ lj = 2
    /\ Cite(li, 1).target_ident.target_type \in {"doi", "arxivid", "ident"}
    /\ Edges # {}

\* The first entry with DOI d, with arXiv id x, with ident n
FirstDoi(d) == CHOOSE A \in Refs : entries[A].doi = d /\ \A B \in 1..(A - 1) : entries[B].doi # d
FirstArxiv(x) ==
    CHOOSE A \in Refs : entries[A].arxiv = x /\ \A B \in 1..(A - 1) : entries[B].arxiv # x
FirstIdent(n) ==
    CHOOSE A \in Refs : entries[A].ident = n /\ \A B \in 1..(A - 1) : entries[B].ident # n

Reported(k, dname, e) ==
    \E h \in 1..Len(stdout) : stdout[h].k = k /\ stdout[h].dname = dname /\ stdout[h].e = e

\* C9: of two entries with the same DOI the first-loaded is the value of
\* by_doi; the second is reported, has its ident as a key of by_ident (with
\* itself as the value unless an earlier entry has that ident) and is in the
\* primary list of its file.  The same for by_arxivid.
C9_FirstDoiWins ==
    pc # "index" =>
        \A A, B \in Refs :
            /\ (A < B /\ entries[A].doi = entries[B].doi /\ entries[B].doi # None) =>
                /\ indices.by_doi[entries[B].doi] = FirstDoi(entries[B].doi)
                /\ Reported(entries[B].doi, "by_doi", B)
                /\ entries[B].ident \in DOMAIN indices.by_ident
                /\ FirstIdent(entries[B].ident) = B => indices.by_ident[entries[B].ident] = B
                /\ B \in Primary(entries[B].fn)
            /\ (A < B /\ entries[A].arxiv = entries[B].arxiv /\ entries[B].arxiv # None) =>
                /\ indices.by_arxivid[entries[B].arxiv] = FirstArxiv(entries[B].arxiv)
                /\ Reported(entries[B].arxiv, "by_arxivid", B)
                /\ entries[B].ident \in DOMAIN indices.by_ident
                /\ FirstIdent(entries[B].ident) = B => indices.by_ident[entries[B].ident] = B
                /\ B \in Primary(entries[B].fn)

\* C9 witness: the run is over; two entries of different idents have the same
\* DOI and the same arXiv id.
C9_Witness ==
    /\ pc = "done"
    /\ \E A, B \in Refs :
        /\ A < B
        /\ entries[A].ident # entries[B].ident
        /\ entries[A].doi = entries[B].doi /\ entries[B].doi # None
        /\ entries[A].arxiv = entries[B].arxiv /\ entries[B].arxiv # None
        /\ indices.by_ident[entries[B].ident] = B

\* C10: of two entries with the same ident the later one is dropped: by_ident
\* holds the first, the conflict is reported, no primary list holds the
\* later entry, and every edge from that ident comes from a citation of the
\* first entry.
C10_LaterDuplicateDropped ==
    pc = "done" =>
        \A A, B \in Refs :
            (A < B /\ entries[A].ident = entries[B].ident) =>
                /\ indices.by_ident[entries[B].ident] = FirstIdent(entries[B].ident)
                /\ Reported(entries[B].ident, "by_ident", B)
                /\ \A fn \in DOMAIN indices.by_fn : B \notin Primary(fn)
                /\ \A e \in Edges :
                    e[1] = entries[B].ident =>
                        \E k \in 1..Len(entries[FirstIdent(e[1])].cites) : \E E \in Refs :
                            /\ ResolvesTo(Cite(FirstIdent(e[1]), k), E)
                            /\ entries[E].ident = e[2]

---------------------------------------------------------------------------
(* gitbib2.main on entries with citation markers in their descriptions *)

\* How many entries, and how many markers in a description
MaxDescEntries == 2
MaxDescMarkers == 2

\* The citation parts parse_paragraph can give: group 1 of IN_TEXT_CITATION_RE
\* is the whole ident, with its doi: or arxiv: prefix, and the number.
DescMarkers ==
    {DescriptionCitation("a", NoNum), DescriptionCitation("a", Num(1)),
     DescriptionCitation("doi:a", NoNum), DescriptionCitation("arxiv:a", NoNum)}

MarkedDescriptions == UNION {[1..m -> DescMarkers] : m \in 0..MaxDescMarkers}

\* The user's cites of the describing entry: none, or one that a marker of
\* the description can equal in target and num, with the why of an
\* extracted citation or with none.
ExplicitCites ==
    {<<>>} \cup
    {<<Citation(TargetIdent("a", "ident"), num, why)>> :
        num \in {NoNum, Num(1)}, why \in {"description", None}}

\* One entry i has the description and the cites; entry h, if any, has the
\* DOI "a" and entry x, if any, the arXiv id "a".
MarkedInput(es) ==
    \E n \in 1..MaxDescEntries : \E s \in Skeletons(n) :
        \E i \in 1..n : \E h, x \in 0..n :
            \E d \in MarkedDescriptions : \E c \in ExplicitCites :
                es = [k \in 1..n |->
                        Entry(IdentOrder[s[k][1]], FnOrder[s[k][2]],
                              IF k = h THEN "a" ELSE None,
                              IF k = x THEN "a" ELSE None,
                              IF k = i THEN d ELSE <<>>,
                              IF k = i THEN c ELSE <<>>)]

InitDesc == MarkedInput(entries) /\ Start

SpecDesc == InitDesc /\ [][Next]_vars

---------------------------------------------------------------------------
(* The regular expressions of gitbib.py.  A Python str is the sequence of *)
(* its characters; a regex group is <<>> (None) or <<s>> (the str s).      *)

Letters ==
    {"a", "b", "c", "d", "e", "f", "g", "h", "i", "j", "k", "l", "m", "n", "o",
     "p", "q", "r", "s", "t", "u", "v", "w", "x", "y", "z"}
DIGITS == <<"0", "1", "2", "3", "4", "5", "6", "7", "8", "9">>
Digits == Range(DIGITS)

\* the classes \w, [\w\.], [\w\-], \d and \s
word == Letters \cup Digits \cup {"_"}
word_dot == word \cup {"."}
word_hyphen == word \cup {"-"}
whitespace == {" ", "\n", "\t"}

NoGroup == <<>>
Group(s) == <<s>>

\* X+ for a class X: the characters i..j of s, at least one, all in X
plus(s, i, j, class) == i <= j /\ \A k \in i..j : s[k] \in class

startswith(s, prefix) == Len(s) >= Len(prefix) /\ SubSeq(s, 1, Len(prefix)) = prefix

\* int() of a str of digits
digit(c) == (CHOOSE k \in 1..Len(DIGITS) : DIGITS[k] = c) - 1
RECURSIVE int(_)
int(s) == IF s = <<>> THEN 0 ELSE 10 * int(SubSeq(s, 1, Len(s) - 1)) + digit(s[Len(s)])

DOI_PREFIX == <<"d", "o", "i", ":">>
ARXIV_PREFIX == <<"a", "r", "x", "i", "v", ":">>

\* doi\:[\w\.]+\/[\w\.]+ matches all of s
doi_ident(s) ==
    /\ startswith(s, DOI_PREFIX)
    /\ \E k \in (Len(DOI_PREFIX) + 1)..Len(s) :
        /\ s[k] = "/"
        /\ plus(s, Len(DOI_PREFIX) + 1, k - 1, word_dot)
        /\ plus(s, k + 1, Len(s), word_dot)

\* arxiv\:\d+\.\d+ matches all of s
arxiv_ident(s) ==
    /\ startswith(s, ARXIV_PREFIX)
    /\ \E k \in (Len(ARXIV_PREFIX) + 1)..Len(s) :
        /\ s[k] = "."
        /\ plus(s, Len(ARXIV_PREFIX) + 1, k - 1, Digits)
        /\ plus(s, k + 1, Len(s), Digits)

\* [\w\-]+ matches all of s
normal_ident(s) == plus(s, 1, Len(s), word_hyphen)

\* The first k >= p with s[k] = c, or 0
RECURSIVE find(_, _, _)
find(s, c, p) ==
    IF p > Len(s) THEN 0 ELSE IF s[p] = c THEN p ELSE find(s, c, p + 1)

\* The result of a pattern at a position where it does not match
NoMatch == [end |-> 0]

\* IN_TEXT_CITATION_RE without its lookahead (?!\()
in_text_citation_at_any(text, p) ==
    LET e == find(text, "]", p + 1)
        body == SubSeq(text, p + 1, e - 1)
        q == find(body, "=", 1)
        ident == IF q = 0 THEN body ELSE SubSeq(body, 1, q - 1)
        n == SubSeq(body, q + 1, Len(body))
    IN  IF /\ text[p] = "["
           /\ e > 0
           /\ (doi_ident(ident) \/ arxiv_ident(ident) \/ normal_ident(ident))
           /\ q > 0 => plus(n, 1, Len(n), Digits)
        THEN [end |-> e,
              groups |->
                <<Group(ident),
                  IF doi_ident(ident) THEN Group(ident) ELSE NoGroup,
                  IF ~doi_ident(ident) /\ arxiv_ident(ident) THEN Group(ident) ELSE NoGroup,
                  IF ~doi_ident(ident) /\ ~arxiv_ident(ident) THEN Group(ident) ELSE NoGroup,
                  IF q > 0 THEN Group(<<"=">> \o n) ELSE NoGroup,
                  IF q > 0 THEN Group(n) ELSE NoGroup>>]
        ELSE NoMatch

\* IN_TEXT_CITATION_RE at position p of text: no class of the pattern holds
\* "]" or "=", so a match ends at the first "]" after p and its ident ends
\* at the only "="; the three alternatives are tried in order.  The result
\* is [end, groups] with the six groups, or NoMatch.
in_text_citation_at(text, p) ==
    LET e == find(text, "]", p + 1)
        body == SubSeq(text, p + 1, e - 1)
        q == find(body, "=", 1)
        ident == IF q = 0 THEN body ELSE SubSeq(body, 1, q - 1)
        n == SubSeq(body, q + 1, Len(body))
    IN  IF /\ text[p] = "["
           /\ e > 0
           /\ (doi_ident(ident) \/ arxiv_ident(ident) \/ normal_ident(ident))
           /\ q > 0 => plus(n, 1, Len(n), Digits)
           /\ e < Len(text) => text[e + 1] # "("
        THEN [end |-> e,
              groups |->
                <<Group(ident),
                  IF doi_ident(ident) THEN Group(ident) ELSE NoGroup,
                  IF ~doi_ident(ident) /\ arxiv_ident(ident) THEN Group(ident) ELSE NoGroup,
                  IF ~doi_ident(ident) /\ ~arxiv_ident(ident) THEN Group(ident) ELSE NoGroup,
                  IF q > 0 THEN Group(<<"=">> \o n) ELSE NoGroup,
                  IF q > 0 THEN Group(n) ELSE NoGroup>>]
        ELSE NoMatch

\* The start of the leftmost match at or after p, or 0
RECURSIVE search(_, _)
search(text, p) ==
    IF p > Len(text) THEN 0
    ELSE IF in_text_citation_at(text, p) # NoMatch THEN p
    ELSE search(text, p + 1)

\* re.finditer(IN_TEXT_CITATION_RE, text): the matches from p on, in order
RECURSIVE finditer(_, _)
finditer(text, p) ==
    LET s == search(text, p)
    IN  IF s = 0 THEN <<>>
        ELSE <<[start |-> s] @@ in_text_citation_at(text, s)>>
                \o finditer(text, in_text_citation_at(text, s).end + 1)

\* re.split(IN_TEXT_CITATION_RE, text): the text before each match, then
\* its six groups, and the text after the last match
RECURSIVE re_split(_, _)
re_split(text, p) ==
    LET s == search(text, p)
    IN  IF s = 0 THEN <<SubSeq(text, p, Len(text))>>
        ELSE <<SubSeq(text, p, s - 1)>> \o in_text_citation_at(text, s).groups
                \o re_split(text, in_text_citation_at(text, s).end + 1)

---------------------------------------------------------------------------
(* gitbib.py: the data of Gitbib.  A Python dict is a function whose       *)
(* domain is its keys; an int n is PyInt(n) and a str s is PyStr(s) where  *)
(* a value may be either (a YAML scalar), as 1 == '1' is False in Python.  *)

PyInt(n) == [int |-> n]
PyStr(s) == [str |-> s]

\* d[k] = v
SetKey(d, k, v) == [x \in DOMAIN d \cup {k} |-> IF x = k THEN v ELSE d[x]]

\* str() of a natural number
RECURSIVE str(_)
str(n) == IF n < 10 THEN <<DIGITS[n + 1]>> ELSE str(n \div 10) \o <<DIGITS[(n % 10) + 1]>>

\* ulog.info, ulog.warn, ulog.error: the message with what it is about
Message(level, text, about) == [level |-> level, text |-> text, about |-> about]

\* A row of the cache: Crossref(doi=key, data=...) or Arxiv(arxivid=key, ...)
Row(table, key) == [table |-> table, key |-> key]

\* The data the service has for a key (what the model keeps of it)
Data(table, key) == [title |-> <<"t">>]

---------------------------------------------------------------------------
(* gitbib.py: cache and _internal_representation.  st is the state the    *)
(* calls pass on: the session's rows, the log, the answers of the network *)
(* and whether an exception is on its way up.                              *)

\* One block of cache(): the query, which sees the rows of the database and
\* the rows this session has added, and the fetch when there is no row.
\* The request ends with status 200, with another status (NoCrossref,
\* NoArxiv: caught and logged) or with an exception of requests or of the
\* parser, which nothing here catches.
cache_block(st, ident, table, key) ==
    IF st.raised THEN [st EXCEPT !.data = NoGroup]
    ELSE IF Row(table, key) \in st.db \cup st.session
    THEN [st EXCEPT !.data = Group(Data(table, key))]
    ELSE LET fetching == [st EXCEPT !.ulog = Append(@, Message("info", "Fetching", ident)),
                                    !.requests = Append(@, Row(table, key))]
         IN  CASE st.net[Row(table, key)] = "200" ->
                    [fetching EXCEPT !.session = @ \cup {Row(table, key)},
                                     !.data = Group(Data(table, key))]
               [] st.net[Row(table, key)] = "404" ->
                    [fetching EXCEPT !.ulog = Append(@, Message("error", "request failed", ident)),
                                     !.data = NoGroup]
               [] OTHER ->
                    [fetching EXCEPT !.raised = TRUE, !.data = NoGroup]

\* ret[key] = one block's data, when the block has data; block is the state
\* after the block
cache_ret(ret, key, block) ==
    [block EXCEPT !.data = IF block.data = NoGroup THEN ret
                           ELSE SetKey(ret, key, block.data[1])]

\* `if key in my_meta:` with its block; st.data is ret
cache_key(st, ident, my_meta, key, table) ==
    IF key \in DOMAIN my_meta
    THEN cache_ret(st.data, key, cache_block(st, ident, table, my_meta[key]))
    ELSE st

\* cache(): ret = dict(none=my_meta), then doi, arxiv and biorxiv; data is ret
cache(ident, my_meta, st) ==
    cache_key(cache_key(cache_key([st EXCEPT !.data = [none |-> my_meta]],
                                  ident, my_meta, "doi", "crossref"),
                        ident, my_meta, "arxiv", "arxiv"),
              ident, my_meta, "biorxiv", "crossref")

\* doi, then arxiv, then biorxiv, then the user's data alone
their_key(their_meta) ==
    IF "doi" \in DOMAIN their_meta THEN "doi"
    ELSE IF "arxiv" \in DOMAIN their_meta THEN "arxiv"
    ELSE IF "biorxiv" \in DOMAIN their_meta THEN "biorxiv"
    ELSE "none"

\* the fetched fields go over the user's ({**my_meta, **their_meta})
merge_meta(my_meta, their_meta) ==
    IF their_key(their_meta) = "none" THEN my_meta
    ELSE SetKey(my_meta, "title", their_meta[their_key(their_meta)].title)

_internal_representation(ident, my_meta, st) ==
    [cache(ident, my_meta, st) EXCEPT !.data = merge_meta(my_meta, @)]

\* entries[ident] = the entry in one.data, in the dict `built` so far
set_item(built, ident, one) == [one EXCEPT !.data = built @@ (ident :> @)]

\* internal_representation: the item k of my_meta goes into data, the dict
\* built so far
internal_representation_item(all_my_meta, keys, k, st) ==
    set_item(st.data, keys[k], _internal_representation(keys[k], all_my_meta[keys[k]], st))

\* internal_representation: every item of my_meta from k on, in the dict's
\* order; st.data is the dict of the items before k
RECURSIVE internal_representation(_, _, _, _)
internal_representation(all_my_meta, keys, k, st) ==
    IF k > Len(keys) \/ st.raised THEN st
    ELSE internal_representation(all_my_meta, keys, k + 1,
                                 internal_representation_item(all_my_meta, keys, k, st))

---------------------------------------------------------------------------
(* gitbib.py: stubs and the citations of a description *)

\* is_stubbable that forgets the arXiv prefix
is_stubbable_doi(ident) == startswith(ident, DOI_PREFIX)

is_stubbable(ident) == startswith(ident, DOI_PREFIX) \/ startswith(ident, ARXIV_PREFIX)

\* stub(): (ident, entry) in data; resolve_crossrefs calls it only for a
\* stubbable ident, so its ValueError is never raised there
stub_meta(ident) ==
    IF startswith(ident, DOI_PREFIX)
    THEN [doi |-> SubSeq(ident, Len(DOI_PREFIX) + 1, Len(ident))]
    ELSE [arxiv |-> SubSeq(ident, Len(ARXIV_PREFIX) + 1, Len(ident))]

stub(ident, st) ==
    [_internal_representation(ident, stub_meta(ident),
        [st EXCEPT !.ulog = Append(@, Message("info", "Creating a stub", ident))])
     EXCEPT !.data = <<ident, @>>]

\* extract_citations_from_description: a numbered marker is a cite, with
\* the number as the str the regex gives; one without number is a reference
RECURSIVE extract_cites(_, _)
extract_cites(matches, k) ==
    IF k > Len(matches) THEN <<>>
    ELSE (IF matches[k].groups[6] # NoGroup
          THEN <<[id |-> matches[k].groups[1][1], num |-> PyStr(matches[k].groups[6][1])]>>
          ELSE <<>>) \o extract_cites(matches, k + 1)

RECURSIVE extract_references(_, _)
extract_references(matches, k) ==
    IF k > Len(matches) THEN <<>>
    ELSE (IF matches[k].groups[6] = NoGroup
          THEN <<[id |-> matches[k].groups[1][1]]>>
          ELSE <<>>) \o extract_references(matches, k + 1)

extracted_citations(matches) ==
    [cites |-> extract_cites(matches, 1), references |-> extract_references(matches, 1)]

extract_citations_from_description(text) == extracted_citations(finditer(text, 1))

\* SHORT_IN_TEXT_CITATION_RE at position p: the end of the match, or 0
short_in_text_citation_at(text, p) ==
    LET e == find(text, "]", p + 1)
    IN  IF /\ text[p] = "["
           /\ e > p + 2
           /\ text[p + 1] = "="
           /\ plus(text, p + 2, e - 1, Digits)
           /\ e < Len(text) => text[e + 1] # "("
        THEN e ELSE 0

\* _replace1 of resolve_short_description_crossrefs: the first cite with
\* `num` and `id` whose num == int(num)
RECURSIVE short_cite(_, _, _)
short_cite(cites, k, num) ==
    IF k > Len(cites) THEN 0
    ELSE IF /\ "num" \in DOMAIN cites[k]
            /\ "id" \in DOMAIN cites[k]
            /\ cites[k]["num"] = PyInt(num)
    THEN k
    ELSE short_cite(cites, k + 1, num)

\* resolve_short_description_crossrefs: re.sub from position p on; the
\* result is the new text and the warnings, in order
RECURSIVE resolve_short_description_crossrefs(_, _, _, _)
resolve_short_description_crossrefs(text, p, ident, entry) ==
    IF p > Len(text) THEN [text |-> <<>>, warned |-> <<>>]
    ELSE LET e == short_in_text_citation_at(text, p)
             num == int(SubSeq(text, p + 2, e - 1))
             c == IF "cites" \in DOMAIN entry THEN short_cite(entry["cites"], 1, num) ELSE 0
             rest == resolve_short_description_crossrefs(
                        text, (IF e = 0 THEN p ELSE e) + 1, ident, entry)
         IN  IF e = 0
             THEN [rest EXCEPT !.text = <<text[p]>> \o @]
             ELSE IF c = 0
             THEN [text |-> <<"(", "r", "e", "f", ".", " ">> \o str(num) \o <<")">> \o rest.text,
                   warned |-> <<Message("warn", "short reference not found", ident)>>
                                \o rest.warned]
             ELSE [rest EXCEPT !.text =
                        <<"[">> \o entry["cites"][c]["id"] \o <<"=">> \o str(num) \o <<"]">> \o @]

---------------------------------------------------------------------------
(* gitbib.py: resolve_crossrefs, one item of entries at a time; ents is  *)
(* the dict `entries` of the function                                     *)

\* entry[key] += more, or entry[key] = more when the key is new; nothing
\* when more is empty
extend(entry, key, more) ==
    IF Len(more) = 0 THEN entry
    ELSE IF key \in DOMAIN entry THEN SetKey(entry, key, entry[key] \o more)
    ELSE SetKey(entry, key, more)

\* stubs += [stub(...)]; cite['resolved'] = True
add_stub(cites, cite, stubbed) ==
    [stubbed EXCEPT !.stubs = Append(@, stubbed.data),
                    !.data = Append(cites, SetKey(cite, "resolved", TRUE))]

\* The body of the loop over entry['cites']: the cite with `resolved` set
\* goes to the end of data, the list of the cites before it
process_cite(cite, ident, ents, st) ==
    IF "id" \notin DOMAIN cite
    THEN [st EXCEPT !.ulog = Append(@, Message("warn", "citation without id", ident)),
                    !.data = Append(@, cite)]
    ELSE IF cite["id"] \in DOMAIN ents
    THEN [st EXCEPT !.data = Append(@, SetKey(cite, "resolved", TRUE))]
    ELSE IF is_stubbable(cite["id"])
    THEN add_stub(st.data, cite, stub(cite["id"], st))
    ELSE [st EXCEPT !.data = Append(@, SetKey(cite, "resolved", FALSE))]

\* The loop over entry['cites'] from k on; an exception ends it
RECURSIVE process_cites(_, _, _, _, _)
process_cites(cites, k, ident, ents, st) ==
    IF k > Len(cites) \/ st.raised THEN st
    ELSE process_cites(cites, k + 1, ident, ents, process_cite(cites[k], ident, ents, st))

\* The body of the loop over entry['references']
process_reference(ref, ident, ents, st) ==
    IF ref["id"] \in DOMAIN ents
    THEN [st EXCEPT !.data = Append(@, SetKey(ref, "resolved", TRUE))]
    ELSE [st EXCEPT !.ulog = Append(@, Message("warn", "unresolved reference",
                                            <<ident, ref["id"]>>)),
                    !.data = Append(@, SetKey(ref, "resolved", FALSE))]

\* The loop over entry['references'] from k on
RECURSIVE process_references(_, _, _, _, _)
process_references(references, k, ident, ents, st) ==
    IF k > Len(references) THEN st
    ELSE process_references(references, k + 1, ident, ents,
                            process_reference(references[k], ident, ents, st))

\* entry[key] = the list in done.data
set_list(entry, key, done) == [done EXCEPT !.data = SetKey(entry, key, @)]

\* `if 'description' in entry:` the citations of the description go to the
\* end of entry['cites'] and entry['references']
add_extracted(entry, extracted) ==
    extend(extend(entry, "cites", extracted.cites), "references", extracted.references)

item_description(entry) ==
    IF "description" \in DOMAIN entry
    THEN add_extracted(entry, extract_citations_from_description(entry["description"]))
    ELSE entry

\* `if 'cites' in entry:`
item_cites(entry, ident, ents, st) ==
    IF "cites" \in DOMAIN entry
    THEN set_list(entry, "cites",
                  process_cites(entry["cites"], 1, ident, ents, [st EXCEPT !.data = <<>>]))
    ELSE [st EXCEPT !.data = entry]

\* `if 'references' in entry:` st.data is the entry
item_references(ident, ents, st) ==
    IF "references" \in DOMAIN st.data /\ ~st.raised
    THEN set_list(st.data, "references",
                  process_references(st.data["references"], 1, ident, ents,
                                     [st EXCEPT !.data = <<>>]))
    ELSE st

\* entry['description'] = resolve_short_description_crossrefs(...)
set_description(st, short) ==
    [st EXCEPT !.ulog = @ \o short.warned,
               !.data = SetKey(@, "description", short.text)]

item_short(ident, st) ==
    IF "description" \in DOMAIN st.data /\ ~st.raised
    THEN set_description(st, resolve_short_description_crossrefs(
                                st.data["description"], 1, ident, st.data))
    ELSE st

\* The body of the loop of resolve_crossrefs for one item: data is the entry
resolve_crossrefs_item(ident, ents, st) ==
    item_short(ident,
        item_references(ident, ents,
            item_cites(item_description(ents[ident]), ident, ents, st)))

\* resolve_crossrefs that returns entries without the stubs
update_none(g, stubs, k) == g

\* entries.update(dict(stubs)): the last stub of an ident is its value, and
\* a new key goes to the end of the dict
RECURSIVE update(_, _, _)
update(g, stubs, k) ==
    IF k > Len(stubs) THEN g
    ELSE update([g EXCEPT !.entries = SetKey(@, stubs[k][1], stubs[k][2]),
                          !.keys = IF stubs[k][1] \in DOMAIN g.entries THEN @
                                   ELSE Append(@, stubs[k][1])],
                stubs, k + 1)

\* The state that cache() and stub() pass on, from the state of Gitbib
St(g) ==
    [session |-> g.session, db |-> g.db, ulog |-> g.ulog, requests |-> g.requests,
     net |-> g.net, stubs |-> g.stubs, raised |-> FALSE, data |-> NoGroup]

\* ... and back
Keep(g, st) ==
    [g EXCEPT !.session = st.session, !.ulog = st.ulog, !.requests = st.requests,
              !.stubs = st.stubs]

---------------------------------------------------------------------------
(* gitbib.py: Gitbib.__init__ as command_line.main calls it *)

\* The variables of gitbib2.main, which Gitbib leaves alone
not_gb == <<entries, indices, cite_network, stdout, pc, li, lj, sc, g2>>
NotGbIdle ==
    /\ sc = Idle
    /\ g2 = Idle
    /\ entries = <<>>
    /\ indices = NoIndices
    /\ cite_network = <<>>
    /\ stdout = <<>>
    /\ pc = Idle
    /\ li = 0
    /\ lj = 0

\* How many cites the user gives an entry, and how many markers are in its
\* description
MaxGbCites == 2
MaxGbMarkers == 2

\* The idents of the inputs
ID_A == <<"a">>
ID_B == <<"b">>
ID_X == <<"x">>
DOI_1 == <<"1", "/", "1">>
ARXIV_1 == <<"1", ".", "1">>
ID_DOI_1 == DOI_PREFIX \o DOI_1
ID_ARXIV_1 == ARXIV_PREFIX \o ARXIV_1

\* The cites a user writes: with an int num, with none, without id
GbCites ==
    {[id |-> ID_A, num |-> PyInt(1)], [id |-> ID_X], [id |-> ID_DOI_1],
     [id |-> ID_ARXIV_1, num |-> PyInt(2)], [num |-> PyInt(3)]}

\* The pieces of a description: numbered markers, one without number, and
\* a short reference
GbMarkers ==
    {<<"[", "a", "=", "1", "]">>, <<"[">> \o ID_DOI_1 \o <<"=", "1", "]">>,
     <<"[", "x", "]">>, <<"[", "=", "1", "]">>}

RECURSIVE join(_)
join(pieces) == IF pieces = <<>> THEN <<>> ELSE Head(pieces) \o join(Tail(pieces))

\* The rows the network is asked for, and its answers: 200, another status,
\* or an exception of the request; a row of the database needs no request
GbRows == {Row("crossref", DOI_1), Row("arxiv", ARXIV_1)}

GbNetworks == [GbRows -> {"200", "404", "raise"}]

\* Gitbib.__init__ at its start, in the block of `with c.scoped_session()`:
\* db is the rows of the database, session the rows added in the scope
GbState(my_meta, keys, net, db) ==
    [pc |-> "internal_representation", my_meta |-> my_meta, keys |-> keys, net |-> net,
     db |-> db, entries |-> EmptyDict, k |-> 0, stubs |-> <<>>, session |-> {},
     ulog |-> <<>>, requests |-> <<>>, scope |-> "open", closed |-> FALSE]

\* my_meta as read_yamls gives it (no key twice): entry a with the cites and
\* the description, and possibly an entry b, with or without the DOI 1/1
GbInput(g) ==
    \E c \in UNION {[1..m -> GbCites] : m \in 0..MaxGbCites} :
    \E d \in UNION {[1..m -> GbMarkers] : m \in 0..MaxGbMarkers} :
    \E described \in BOOLEAN :
    \E b \in {"none", "plain", "doi"} :
    \E net \in GbNetworks : \E db \in {{}, {Row("crossref", DOI_1)}} :
        /\ described \/ d = <<>>
        /\ db # {} => net[Row("crossref", DOI_1)] = "200"
        /\ LET a0 == [input_fn |-> "f1"]
               a1 == IF c = <<>> THEN a0 ELSE SetKey(a0, "cites", c)
               a2 == IF described THEN SetKey(a1, "description", join(d)) ELSE a1
               b0 == [input_fn |-> "f2"]
               b1 == IF b = "doi" THEN SetKey(b0, "doi", DOI_1) ELSE b0
           IN  g = GbState(IF b = "none" THEN (ID_A :> a2) ELSE (ID_A :> a2) @@ (ID_B :> b1),
                           IF b = "none" THEN <<ID_A>> ELSE <<ID_A, ID_B>>,
                           net, db)

InitGitbib == GbInput(gb) /\ NotGbIdle

\* An exception in step `code` is logged and raised again
gb_raised(g, r, code) ==
    [Keep(g, r) EXCEPT !.pc = "raised",
                       !.ulog = Append(r.ulog, Message("error", "unknown", code))]

\* self.entries = internal_representation(my_meta, ...)
gb_entries(g, r) ==
    IF r.raised THEN gb_raised(g, r, 2)
    ELSE [Keep(g, r) EXCEPT !.pc = "resolve_crossrefs", !.entries = r.data, !.k = 1]

\* the item k of entries after the body of the loop
gb_item(g, r) ==
    IF r.raised THEN gb_raised(g, r, 3)
    ELSE [Keep(g, r) EXCEPT !.entries = SetKey(@, g.keys[g.k], r.data), !.k = @ + 1]

\* Gitbib.__init__: entries = internal_representation(my_meta, ...)
GbInternalRepresentation ==
    /\ gb.pc = "internal_representation"
    /\ gb' = gb_entries(gb, internal_representation(gb.my_meta, gb.keys, 1,
                                                    [St(gb) EXCEPT !.data = EmptyDict]))
    /\ UNCHANGED not_gb

\* resolve_crossrefs: the body of its loop for the item k of entries
GbResolveCrossrefs ==
    /\ gb.pc = "resolve_crossrefs"
    /\ gb.k <= Len(gb.keys)
    /\ gb' = gb_item(gb, resolve_crossrefs_item(gb.keys[gb.k], gb.entries, St(gb)))
    /\ UNCHANGED not_gb

\* resolve_crossrefs: entries.update(dict(stubs)) and the return
GbUpdateStubs ==
    /\ gb.pc = "resolve_crossrefs"
    /\ gb.k > Len(gb.keys)
    /\ gb' = [update(gb, gb.stubs, 1) EXCEPT !.pc = "done"]
    /\ UNCHANGED not_gb

\* scoped_session when the block raises: rollback, and close, and the
\* exception goes on to the caller, but the database keeps the added rows
GbRollbackCommits ==
    /\ gb.pc = "raised"
    /\ gb' = [gb EXCEPT !.db = @ \cup gb.session, !.session = {}, !.scope = "rolled_back",
                        !.closed = TRUE, !.pc = "exception"]
    /\ UNCHANGED not_gb

\* scoped_session when the block ends: session.commit(), then close
GbCommit ==
    /\ gb.pc = "done"
    /\ gb' = [gb EXCEPT !.db = @ \cup gb.session, !.session = {}, !.scope = "committed",
                        !.closed = TRUE, !.pc = "renderers"]
    /\ UNCHANGED not_gb

\* scoped_session when the block raises: session.rollback(), raise, and
\* close; command_line.main ends with the exception
GbRollback ==
    /\ gb.pc = "raised"
    /\ gb' = [gb EXCEPT !.session = {}, !.scope = "rolled_back",
                        !.closed = TRUE, !.pc = "exception"]
    /\ UNCHANGED not_gb

NextGitbib ==
    \/ GbInternalRepresentation
    \/ GbResolveCrossrefs
    \/ GbUpdateStubs
    \/ GbCommit
    \/ GbRollback

SpecGitbib == InitGitbib /\ [][NextGitbib]_vars

---------------------------------------------------------------------------
(* Properties of the citations of a description *)

\* The user's cites of entry a, and its cites in entries
GbUserCites ==
    IF "cites" \in DOMAIN gb.my_meta[ID_A] THEN gb.my_meta[ID_A]["cites"] ELSE <<>>
GbEntryCites ==
    IF "cites" \in DOMAIN gb.entries[ID_A] THEN gb.entries[ID_A]["cites"] ELSE <<>>

\* resolve_crossrefs has done the item of entry a
GbItemDone == gb.pc \in {"resolve_crossrefs", "done"} /\ gb.k > 1

\* C11: when the citations extracted from an entry's description are merged
\* into its cites, a citation equal by value to one already in the list is
\* not added a second time, whether the earlier one was declared by the user
\* or extracted from an earlier marker of the same description.  In
\* resolve_crossrefs: once the item of entry a is done, no cite after the
\* user's cites equals a cite before it in the list.
C11_NoDoubleAdd ==
    GbItemDone =>
        \A j \in (Len(GbUserCites) + 1)..Len(GbEntryCites) :
            \A i \in 1..(j - 1) : GbEntryCites[i] # GbEntryCites[j]

\* The cites of entry a that have an id which is no key of entries when
\* resolve_crossrefs runs its loop (the keys of my_meta)
GbMissing ==
    {k \in 1..Len(GbEntryCites) :
        "id" \in DOMAIN GbEntryCites[k] /\ GbEntryCites[k]["id"] \notin DOMAIN gb.my_meta}

HasDoiPrefix(id) == Len(id) >= 4 /\ SubSeq(id, 1, 4) = <<"d", "o", "i", ":">>
HasArxivPrefix(id) == Len(id) >= 6 /\ SubSeq(id, 1, 6) = <<"a", "r", "x", "i", "v", ":">>
HasPrefix(id) == HasDoiPrefix(id) \/ HasArxivPrefix(id)

\* The row of the cache a stub of id is made from
StubRow(id) ==
    IF HasDoiPrefix(id)
    THEN Row("crossref", SubSeq(id, 5, Len(id)))
    ELSE Row("arxiv", SubSeq(id, 7, Len(id)))

\* The stub of id came through cache(): its row was in the cache or was
\* requested, and the stub has the fetched data exactly when the row is in
\* the cache now
StubFetched(s) ==
    /\ StubRow(s[1]) \in gb.db \/ \E r \in 1..Len(gb.requests) : gb.requests[r] = StubRow(s[1])
    /\ "title" \in DOMAIN s[2] <=> StubRow(s[1]) \in gb.db \cup gb.session

\* C12: in resolve_crossrefs a cite whose id is no key of entries gets a
\* stub (made through cache(), put into entries under that id at the end,
\* the cite marked resolved) if and only if the id starts with doi: or
\* arxiv:; any other such id gets no stub and no request and its cite is
\* marked unresolved.
C12_StubIffPrefixed ==
    GbItemDone =>
        \A k \in GbMissing :
            LET cite == GbEntryCites[k]
                id == cite["id"]
                made == {j \in 1..Len(gb.stubs) : gb.stubs[j][1] = id}
            IN  /\ HasPrefix(id) <=> made # {}
                /\ cite["resolved"] = HasPrefix(id)
                /\ \A j \in made : StubFetched(gb.stubs[j])
                /\ gb.pc = "done" => (id \in DOMAIN gb.entries <=> HasPrefix(id))
                /\ gb.pc = "done" /\ HasPrefix(id) =>
                        \E j \in made : gb.entries[id] = gb.stubs[j][2]
                /\ ~HasPrefix(id) =>
                        \A r \in 1..Len(gb.ulog) :
                            gb.ulog[r].text = "Creating a stub" => gb.ulog[r].about # id

\* A finished run with a stubbed cite and an unresolved one
C12_Witness ==
    /\ gb.pc = "done"
    /\ \E k, l \in GbMissing :
        /\ GbEntryCites[k]["id"] = ID_ARXIV_1 /\ GbEntryCites[k]["resolved"]
        /\ ID_ARXIV_1 \in DOMAIN gb.entries
        /\ GbEntryCites[l]["id"] = ID_X /\ ~GbEntryCites[l]["resolved"]
        /\ ID_X \notin DOMAIN gb.entries

\* The lines of the log that report citation c of entry A as unresolved
UnresolvedWarnings(A, c) ==
    {r \in 1..Len(stdout) :
        /\ "citation" \in DOMAIN stdout[r]
        /\ stdout[r].citation = c
        /\ stdout[r].e = A}

\* C13: a citation of target type doi whose DOI is no loaded entry's DOI is
\* still an unresolved doi citation at the end of the run, which is reached
\* (the batch is not aborted), has added no edge, and exactly one warning
\* has been logged for it.
C13_UnresolvedDoiWarned ==
    Linked =>
        \A r \in CiteRefs :
            LET c == Cite(r[1], r[2])
            IN  c.target_ident.target_type = "doi"
                    /\ c.target_ident.ident \notin DOMAIN indices.by_doi =>
                /\ pc \in {"link", "done"}
                /\ link_cite(<<>>, entries[r[1]], c.target_ident, indices, entries) = <<>>
                /\ Cardinality(UnresolvedWarnings(r[1], c)) = 1

---------------------------------------------------------------------------
(* description.py: parse_description and parse_paragraph *)

\* The variables that the scanners leave alone
not_sc == <<entries, indices, cite_network, stdout, pc, li, lj, gb, g2>>
NotScIdle ==
    /\ gb = Idle
    /\ g2 = Idle
    /\ entries = <<>>
    /\ indices = NoIndices
    /\ cite_network = <<>>
    /\ stdout = <<>>
    /\ pc = Idle
    /\ li = 0
    /\ lj = 0

\* description.Text and description.Citation (DescriptionCitation above)
Text(content) == [content |-> content]

\* re.sub(r'\n', r' ', text)
newlines_to_spaces(text) == [k \in 1..Len(text) |-> IF text[k] = "\n" THEN " " ELSE text[k]]

\* The loop of parse_paragraph over raw_parts from k on: a text, then the
\* six groups of a match, until StopIteration
RECURSIVE paragraph_parts(_, _)
paragraph_parts(raw_parts, k) ==
    IF k > Len(raw_parts) THEN <<>>
    ELSE IF k + 6 > Len(raw_parts) THEN <<Text(raw_parts[k])>>
    ELSE <<Text(raw_parts[k]),
           DescriptionCitation(raw_parts[k + 1][1],
                               IF raw_parts[k + 6] = NoGroup THEN NoNum
                               ELSE Num(int(raw_parts[k + 6][1])))>>
            \o paragraph_parts(raw_parts, k + 7)

parse_paragraph(text) == paragraph_parts(re_split(newlines_to_spaces(text), 1), 1)

\* re.split(r'\n\n', desc) from position p on
RECURSIVE split_paragraphs(_, _, _)
split_paragraphs(desc, p, k) ==
    IF k >= Len(desc) THEN <<SubSeq(desc, p, Len(desc))>>
    ELSE IF desc[k] = "\n" /\ desc[k + 1] = "\n"
    THEN <<SubSeq(desc, p, k - 1)>> \o split_paragraphs(desc, k + 2, k + 2)
    ELSE split_paragraphs(desc, p, k + 1)

\* parse_description: the paragraphs' texts and their parts
parse_description(desc) ==
    [k \in 1..Len(split_paragraphs(desc, 1, 1)) |-> parse_paragraph(split_paragraphs(desc, 1, 1)[k])]

---------------------------------------------------------------------------
(* gitbib.py: markdownify *)

Max(S) == CHOOSE x \in S : \A y \in S : y <= x

\* safe_css: re.sub(r'[^a-zA-Z0-9\-]', '', id)
RECURSIVE css_chars(_)
css_chars(id) ==
    IF id = <<>> THEN <<>>
    ELSE (IF Head(id) \in Letters \cup Digits \cup {"-"} THEN <<Head(id)>> ELSE <<>>)
            \o css_chars(Tail(id))

css_name(id, replace) ==
    IF replace # id THEN <<"s", "a", "f", "e", "-", "c", "s", "s", "-">> \o replace
    ELSE IF id # <<>> /\ id[1] \in Digits THEN <<"n">> \o replace
    ELSE id

safe_css(id) == css_name(id, css_chars(id))

\* '<a href="{href}">{s}</a>'
anchor(href, s) ==
    <<"<", "a", " ", "h", "r", "e", "f", "=", "\"">> \o href \o <<"\"", ">">> \o s
        \o <<"<", "/", "a", ">">>

\* '{i} (ref. {n})' or '{i}'
ref_text(i, n) ==
    IF n = NoGroup THEN i
    ELSE i \o <<" ", "(", "r", "e", "f", ".", " ">> \o n[1] \o <<")">>

\* _replace1 of markdownify; known is the set of keys of entries
markdownify_replace1(groups, known) ==
    IF groups[1][1] \notin known
    THEN <<"[">> \o ref_text(groups[1][1], groups[6]) \o <<"]">>
    ELSE anchor(<<"#">> \o safe_css(groups[1][1]), ref_text(groups[1][1], groups[6]))

\* re.sub(IN_TEXT_CITATION_RE, _replace1, text) over the matches
RECURSIVE sub_matches(_, _, _, _, _)
sub_matches(text, p, matches, k, known) ==
    IF k > Len(matches) THEN SubSeq(text, p, Len(text))
    ELSE SubSeq(text, p, matches[k].start - 1)
            \o markdownify_replace1(matches[k].groups, known)
            \o sub_matches(text, matches[k].end + 1, matches, k + 1, known)

sub_citations(text, known) == sub_matches(text, 1, finditer(text, 1), 1, known)

\* [\w\.\:\/] and the lookahead (?=[\s\?\.\!])
url_chars == word \cup {".", ":", "/"}
after_link == whitespace \cup {"?", ".", "!"}

\* The end of ([\w\.\:\/]+)\) from position p on: the ")" after the longest
\* run of url characters, which is not empty, or 0
RECURSIVE url_end(_, _, _)
url_end(text, p, q) ==
    IF q > Len(text) THEN 0
    ELSE IF text[q] \in url_chars THEN url_end(text, p, q + 1)
    ELSE IF text[q] = ")" /\ q > p THEN q
    ELSE 0

\* \[(.+)\] with the "]" at k, then \(([\w\.\:\/]+)\)(?=[\s\?\.\!]):
\* (.+) is one character or more, none a newline
link_closes_at(text, p, k) ==
    /\ text[k] = "]"
    /\ k < Len(text) /\ text[k + 1] = "("
    /\ \A j \in (p + 1)..(k - 1) : text[j] # "\n"
    /\ url_end(text, k + 2, k + 2) > 0
    /\ url_end(text, k + 2, k + 2) < Len(text)
    /\ text[url_end(text, k + 2, k + 2) + 1] \in after_link

link_closes(text, p) == {k \in (p + 2)..Len(text) : link_closes_at(text, p, k)}

\* The match of the link pattern at p with its "]" at k
link_match(text, p, k) ==
    [start |-> p, end |-> url_end(text, k + 2, k + 2),
     s |-> SubSeq(text, p + 1, k - 1),
     href |-> SubSeq(text, k + 2, url_end(text, k + 2, k + 2) - 1)]

\* The link pattern at position p: (.+) is greedy, so of the places where
\* the rest of the pattern matches the last one is taken
link_at(text, p) ==
    IF text[p] = "[" /\ link_closes(text, p) # {}
    THEN link_match(text, p, Max(link_closes(text, p)))
    ELSE NoMatch

\* The matches of the link pattern from p on, leftmost first
RECURSIVE link_finditer(_, _)
link_finditer(text, p) ==
    IF p > Len(text) THEN <<>>
    ELSE IF link_at(text, p) = NoMatch THEN link_finditer(text, p + 1)
    ELSE <<link_at(text, p)>> \o link_finditer(text, link_at(text, p).end + 1)

\* _replace2 of markdownify
markdownify_replace2(href, s) ==
    IF startswith(href, <<"h", "t", "t", "p">>) THEN anchor(href, s)
    ELSE anchor(<<"h", "t", "t", "p", ":", "/", "/">> \o href, s)

\* re.sub of the link pattern with _replace2, over the matches
RECURSIVE sub_link_matches(_, _, _, _)
sub_link_matches(text, p, matches, k) ==
    IF k > Len(matches) THEN SubSeq(text, p, Len(text))
    ELSE SubSeq(text, p, matches[k].start - 1)
            \o markdownify_replace2(matches[k].href, matches[k].s)
            \o sub_link_matches(text, matches[k].end + 1, matches, k + 1)

sub_links(text) == sub_link_matches(text, 1, link_finditer(text, 1), 1)

\* The first position from k on that holds no newline
RECURSIVE skip_newlines(_, _)
skip_newlines(text, k) ==
    IF k <= Len(text) /\ text[k] = "\n" THEN skip_newlines(text, k + 1) ELSE k

\* re.split(r'\n\n+', text) from position p on
RECURSIVE split_blank_lines(_, _, _)
split_blank_lines(text, p, k) ==
    IF k >= Len(text) THEN <<SubSeq(text, p, Len(text))>>
    ELSE IF text[k] = "\n" /\ text[k + 1] = "\n"
    THEN <<SubSeq(text, p, k - 1)>>
            \o split_blank_lines(text, skip_newlines(text, k), skip_newlines(text, k))
    ELSE split_blank_lines(text, p, k + 1)

\* "\n".join('<p class="card-text">{}</p>'.format(s) for s in splits)
RECURSIVE card_texts(_, _)
card_texts(splits, k) ==
    IF k > Len(splits) THEN <<>>
    ELSE (IF k > 1 THEN <<"\n">> ELSE <<>>)
            \o <<"<", "p", " ", "c", "l", "a", "s", "s", "=", "\"", "c", "a", "r", "d", "-",
                 "t", "e", "x", "t", "\"", ">">>
            \o splits[k] \o <<"<", "/", "p", ">">>
            \o card_texts(splits, k + 1)

markdownify(text, known) == card_texts(split_blank_lines(sub_links(sub_citations(text, known)), 1, 1), 1)

---------------------------------------------------------------------------
(* The scanners on the texts a user can write *)

\* The pieces a description is written from, and how many of them
MaxFragments == 3

Fragments ==
    {<<"t">>, <<" ">>, <<"\n">>, <<"(">>, <<"[">>, <<"]">>, <<".">>,
     <<"[", "a", "]">>, <<"[", "a", "=", "0", "1", "]">>, <<"[", "=", "1", "]">>,
     <<"[", "a", "-", "b", "]">>, <<"[">> \o ID_DOI_1 \o <<"=", "2", "]">>,
     <<"[">> \o ID_ARXIV_1 \o <<"]">>,
     <<"[", "t", "]", "(", "u", ")">>,
     <<"[", "t", "]", "(", "h", "t", "t", "p", ":", "u", ")", ".">>}

FragmentLists == UNION {[1..m -> Fragments] : m \in 0..MaxFragments}

\* The text, and the keys of entries that markdownify is given
InitScan ==
    /\ \E f \in FragmentLists : \E known \in {{}, {ID_A}} :
            sc = [pc |-> "text", text |-> join(f), known |-> known]
    /\ NotScIdle

\* merge_description: parse_description(entry.user_data['description'])
ParseDescription ==
    /\ sc.pc = "text"
    /\ sc' = [pc |-> "parsed", text |-> sc.text, known |-> sc.known,
              raw_paras |-> split_paragraphs(sc.text, 1, 1),
              paragraphs |-> parse_description(sc.text)]
    /\ UNCHANGED not_sc

\* The markdownify filter of the templates, on the same text
Markdownify ==
    /\ sc.pc = "text"
    /\ sc' = [pc |-> "markdownified", text |-> sc.text, known |-> sc.known,
              cited |-> sub_citations(sc.text, sc.known),
              linked |-> sub_links(sub_citations(sc.text, sc.known)),
              html |-> markdownify(sc.text, sc.known)]
    /\ UNCHANGED not_sc

NextScan ==
    \/ ParseDescription
    \/ Markdownify

SpecScan == InitScan /\ [][NextScan]_vars

---------------------------------------------------------------------------
(* Properties of the scanners *)

AllIn(s, class) == s # <<>> /\ \A k \in 1..Len(s) : s[k] \in class

\* The three shapes of an ident in a marker
WellFormedIdent(s) ==
    \/ AllIn(s, word_hyphen)
    \/ \E k \in 6..(Len(s) - 1) :
        /\ SubSeq(s, 1, 4) = <<"d", "o", "i", ":">>
        /\ AllIn(SubSeq(s, 5, k - 1), word_dot)
        /\ s[k] = "/"
        /\ AllIn(SubSeq(s, k + 1, Len(s)), word_dot)
    \/ \E k \in 8..(Len(s) - 1) :
        /\ SubSeq(s, 1, 6) = <<"a", "r", "x", "i", "v", ":">>
        /\ AllIn(SubSeq(s, 7, k - 1), Digits)
        /\ s[k] = "."
        /\ AllIn(SubSeq(s, k + 1, Len(s)), Digits)

\* Where the "=n" of a marker's body starts: the position of "=", or one
\* past the body when it has none
EqualsAt(body) ==
    IF \E q \in 1..Len(body) : body[q] = "="
    THEN CHOOSE q \in 1..Len(body) : body[q] = "=" /\ \A r \in 1..(q - 1) : body[r] # "="
    ELSE Len(body) + 1

\* t[s..e] is a well-formed marker [id] or [id=n] not followed by "("
Marker(t, s, e) ==
    /\ s < e /\ t[s] = "[" /\ t[e] = "]"
    /\ LET body == SubSeq(t, s + 1, e - 1)
           q == EqualsAt(body)
       IN  /\ WellFormedIdent(SubSeq(body, 1, q - 1))
           /\ q <= Len(body) => AllIn(SubSeq(body, q + 1, Len(body)), Digits)
    /\ e < Len(t) => t[e + 1] # "("

TextMarkers(t) == {m \in (1..Len(t)) \X (1..Len(t)) : Marker(t, m[1], m[2])}

\* The markers of t from left to right
MarkersInOrder(t) ==
    CHOOSE ms \in [1..Cardinality(TextMarkers(t)) -> TextMarkers(t)] :
        \A i, j \in DOMAIN ms : i < j => ms[i][1] < ms[j][1]

\* Citation(id, n) of the marker t[s..e]
MarkerCitation(t, m) ==
    LET body == SubSeq(t, m[1] + 1, m[2] - 1)
        q == EqualsAt(body)
    IN  DescriptionCitation(SubSeq(body, 1, q - 1),
                            IF q <= Len(body) THEN Num(int(SubSeq(body, q + 1, Len(body))))
                            ELSE NoNum)

\* The tokens of t: before each marker the plain text since the marker
\* before it, taken from `plain` (t as the tokens show it), and the text
\* after the last marker
Tokens(t, plain) ==
    LET ms == MarkersInOrder(t)
        n == Len(ms)
    IN  [k \in 1..(2 * n + 1) |->
            IF k % 2 = 0 THEN MarkerCitation(t, ms[k \div 2])
            ELSE Text(SubSeq(plain,
                             IF k = 1 THEN 1 ELSE ms[(k - 1) \div 2][2] + 1,
                             IF k = 2 * n + 1 THEN Len(t) ELSE ms[(k + 1) \div 2][1] - 1))]

SpacesForNewlines(t) == [k \in 1..Len(t) |-> IF t[k] = "\n" THEN " " ELSE t[k]]

\* C14 as stated: for every text the scanner gives, for each well-formed
\* marker [id] or [id=n] not followed by "(", the plain text before it and
\* then Citation(id, n), n an integer or absent, then the trailing text, in
\* the order of the markers, with all the plain text between them preserved,
\* and nothing but text and citation tokens.
C14_PlainTextPreserved ==
    sc.pc = "parsed" =>
        \A k \in 1..Len(sc.raw_paras) :
            sc.paragraphs[k] = Tokens(sc.raw_paras[k], sc.raw_paras[k])

\* C14: the same, with every newline of the plain text given as a space
C14_ScannerTokens ==
    sc.pc = "parsed" =>
        \A k \in 1..Len(sc.raw_paras) :
            sc.paragraphs[k] = Tokens(sc.raw_paras[k], SpacesForNewlines(sc.raw_paras[k]))

\* A paragraph with two citations, a newline in its text, and a bracket
\* that is no citation
C14_Witness ==
    /\ sc.pc = "parsed"
    /\ \E k \in 1..Len(sc.raw_paras) :
        /\ Len(sc.paragraphs[k]) = 5
        /\ sc.paragraphs[k][2].num = NoNum
        /\ sc.paragraphs[k][4].num = Num(1)
        /\ sc.paragraphs[k][3] = Text(<<" ">>)
        /\ sc.raw_paras[k][4] = "\n"

RECURSIVE Flatten(_)
Flatten(pieces) == IF pieces = <<>> THEN <<>> ELSE Head(pieces) \o Flatten(Tail(pieces))

\* A token Link(text, url)
LinkToken(text, url) == [s |-> text, href |-> url]

\* Where the text of a link [text](url) starting at s ends: its first "]"
LinkTextEnd(t, s) ==
    IF \E k \in (s + 1)..Len(t) : t[k] = "]"
    THEN CHOOSE k \in (s + 1)..Len(t) : t[k] = "]" /\ \A j \in (s + 1)..(k - 1) : t[j] # "]"
    ELSE 0

\* t[s..e] is [text](url) followed by whitespace or one of . ? !
IsLink(t, s, e) ==
    LET k == LinkTextEnd(t, s)
    IN  /\ t[s] = "[" /\ t[e] = ")"
        /\ k > s + 1 /\ k + 2 < e
        /\ \A j \in (s + 1)..(k - 1) : t[j] \notin {"[", "\n"}
        /\ t[k + 1] = "("
        /\ AllIn(SubSeq(t, k + 2, e - 1), word \cup {".", ":", "/"})
        /\ e < Len(t) /\ t[e + 1] \in {" ", "\n", "\t", ".", "?", "!"}

TextLinks(t) == {m \in (1..Len(t)) \X (1..Len(t)) : IsLink(t, m[1], m[2])}

LinksInOrder(t) ==
    CHOOSE ms \in [1..Cardinality(TextLinks(t)) -> TextLinks(t)] :
        \A i, j \in DOMAIN ms : i < j => ms[i][1] < ms[j][1]

\* The tokens of t: the plain text before each link, the link, and the text
\* after the last link
LinkTokens(t) ==
    LET ms == LinksInOrder(t)
        n == Len(ms)
    IN  [k \in 1..(2 * n + 1) |->
            IF k % 2 = 0
            THEN LinkToken(SubSeq(t, ms[k \div 2][1] + 1, LinkTextEnd(t, ms[k \div 2][1]) - 1),
                           SubSeq(t, LinkTextEnd(t, ms[k \div 2][1]) + 2, ms[k \div 2][2] - 1))
            ELSE Text(SubSeq(t,
                             IF k = 1 THEN 1 ELSE ms[(k - 1) \div 2][2] + 1,
                             IF k = 2 * n + 1 THEN Len(t) ELSE ms[(k + 1) \div 2][1] - 1))]

\* What markdownify writes for a token
Written(token) ==
    IF "content" \in DOMAIN token THEN token.content
    ELSE <<"<", "a", " ", "h", "r", "e", "f", "=", "\"">>
            \o (IF Len(token.href) >= 4 /\ SubSeq(token.href, 1, 4) = <<"h", "t", "t", "p">>
                THEN <<>> ELSE <<"h", "t", "t", "p", ":", "/", "/">>)
            \o token.href \o <<"\"", ">">> \o token.s \o <<"<", "/", "a", ">">>

\* The text with k markers replaced: only the well-formed markers not
\* followed by "(" are citations
CitationsWritten(t, known) ==
    LET ms == MarkersInOrder(t)
        n == Len(ms)
        body(m) == SubSeq(t, m[1] + 1, m[2] - 1)
        id(m) == SubSeq(body(m), 1, EqualsAt(body(m)) - 1)
        num(m) == SubSeq(body(m), EqualsAt(body(m)) + 1, Len(body(m)))
        shown(m) == IF EqualsAt(body(m)) > Len(body(m)) THEN id(m)
                    ELSE id(m) \o <<" ", "(", "r", "e", "f", ".", " ">> \o num(m) \o <<")">>
    IN  Flatten([k \in 1..(2 * n + 1) |->
            IF k % 2 = 0
            THEN IF id(ms[k \div 2]) \in known
                 THEN <<"<", "a", " ", "h", "r", "e", "f", "=", "\"", "#">>
                        \o safe_css(id(ms[k \div 2])) \o <<"\"", ">">> \o shown(ms[k \div 2])
                        \o <<"<", "/", "a", ">">>
                 ELSE <<"[">> \o shown(ms[k \div 2]) \o <<"]">>
            ELSE SubSeq(t,
                        IF k = 1 THEN 1 ELSE ms[(k - 1) \div 2][2] + 1,
                        IF k = 2 * n + 1 THEN Len(t) ELSE ms[(k + 1) \div 2][1] - 1)])

\* C15: for every text, each [text](url) that is followed by whitespace or
\* one of . ? ! comes out as one link with that text and url, with the plain
\* text before, between and after the links preserved in order (two links
\* give two separate links), and a bracket immediately followed by "(" is
\* never taken as a citation.
C15_LinkTokens ==
    sc.pc = "markdownified" =>
        /\ sc.cited = CitationsWritten(sc.text, sc.known)
        /\ sc.linked = Flatten([k \in DOMAIN LinkTokens(sc.cited) |->
                                    Written(LinkTokens(sc.cited)[k])])

---------------------------------------------------------------------------
(* Properties of the cache *)

\* C16: every session scope ends in exactly one of two ways: when the block
\* exits normally the session is committed (the rows added in the scope are
\* in the database); when the block raises, the session is rolled back (none
\* of the rows added in the scope is in the database) and the exception goes
\* on to the caller.  In both cases the session is closed afterwards, and a
\* block that has ended always has its scope ended.
C16_ScopeEnds ==
    [][/\ gb.scope = "open" /\ gb'.scope # "open" =>
            \/ /\ gb.pc = "done"
               /\ gb'.scope = "committed"
               /\ gb'.db = gb.db \cup gb.session
               /\ gb'.closed
               /\ gb'.pc = "renderers"
            \/ /\ gb.pc = "raised"
               /\ gb'.scope = "rolled_back"
               /\ gb'.db = gb.db
               /\ gb'.closed
               /\ gb'.pc = "exception"
       /\ gb.scope # "open" => gb' = gb
       /\ gb'.closed <=> gb'.scope # "open"
       /\ gb'.pc \in {"renderers", "exception"} <=> gb'.scope # "open"]_vars

\* A scope rolled back after a row was added in it: the row is not in the
\* database
C16_Witness ==
    /\ gb.scope = "rolled_back"
    /\ gb.closed
    /\ \E r \in 1..Len(gb.requests) :
        gb.net[gb.requests[r]] = "200" /\ gb.requests[r] \notin gb.db

\* The requests of the run that failed: another status than 200, or an
\* exception of the request or of its parser
FailedRequests == {r \in 1..Len(gb.requests) : gb.net[gb.requests[r]] # "200"}

\* C17: when the Crossref or arXiv fetch for one entry fails, the failure is
\* logged, no row is added to the cache for that key, no exception escapes,
\* and the batch goes on: the run ends with every entry of the user in
\* entries, the entry of the failed fetch with the user's data alone.
C17_FailedFetchDegrades ==
    \A r \in FailedRequests :
        /\ \E m \in 1..Len(gb.ulog) :
                gb.ulog[m].level = "error" /\ gb.ulog[m].text = "request failed"
        /\ gb.requests[r] \notin gb.db \cup gb.session
        /\ gb.pc \notin {"raised", "exception"}
        /\ gb.pc \in {"done", "renderers"} =>
                \A ident \in DOMAIN gb.my_meta :
                    /\ ident \in DOMAIN gb.entries
                    /\ ("doi" \in DOMAIN gb.my_meta[ident]
                            /\ gb.net[Row("crossref", gb.my_meta[ident]["doi"])] # "200"
                            /\ Row("crossref", gb.my_meta[ident]["doi"]) \notin gb.db)
                        => "title" \notin DOMAIN gb.entries[ident]

---------------------------------------------------------------------------
(* gitbib.py: descendants and render_tree, the walks over the cites of the *)
(* entries that resolve_crossrefs has left.  stack is the call stack of    *)
(* _descendants or _render_tree: the ident of each call and the position   *)
(* of its loop over node['cites'].                                         *)

\* How many entries, how many cites an entry has, and the depth of the call
\* stack at which the interpreter raises RecursionError
MaxTreeEntries == 2
MaxTreeCites == 2
MaxDepth == 4

TreeIdents == <<ID_A, ID_B, ID_X>>

\* The cites resolve_crossrefs leaves in an entry set with the keys `keys`:
\* `resolved` says whether the id is a key; a cite without id has none
TreeCites(keys) ==
    {[id |-> i, resolved |-> i \in keys] : i \in {ID_A, ID_B, ID_X}} \cup {[num |-> PyInt(3)]}

TreeEntries(n) ==
    LET keys == {TreeIdents[k] : k \in 1..n}
    IN  [keys -> {EmptyDict} \cup
                 {[cites |-> c] : c \in UNION {[1..m -> TreeCites(keys)] : m \in 1..MaxTreeCites}}]

\* descendants(idents, entries) or render_tree(entries, root) at its start
TreeState(fn, ents, idents) ==
    [pc |-> fn, entries |-> ents, idents |-> idents, r |-> 1, stack |-> <<>>,
     out_idents |-> {}, ulog |-> <<>>]

InitTree ==
    /\ \E n \in 1..MaxTreeEntries : \E ents \in TreeEntries(n) :
        \E fn \in {"descendants", "render_tree"} :
        \E idents \in {<<ID_A>>} \cup
                      (IF fn = "descendants" /\ n > 1 THEN {<<ID_A, ID_B>>, <<ID_B>>} ELSE {}) :
            gb = TreeState(fn, ents, idents)
    /\ NotGbIdle

Frame(ident) == [ident |-> ident, i |-> 1]

\* A call of _descendants or _render_tree: a new frame, or RecursionError
\* when the stack is at the interpreter's limit; _render_tree puts its node
\* into matching_entries first
call(g, ident) ==
    IF Len(g.stack) >= MaxDepth THEN [g EXCEPT !.pc = "RecursionError"]
    ELSE [g EXCEPT !.stack = Append(@, Frame(ident)),
                   !.out_idents = IF g.pc = "render_tree" THEN @ \cup {ident} ELSE @]

\* The loop of the top call goes on to its next cite
next_cite_of_top(g) == [g EXCEPT !.stack[Len(g.stack)].i = @ + 1]

TreeWalking == gb.pc \in {"descendants", "render_tree"}

TopCites ==
    LET node == gb.entries[gb.stack[Len(gb.stack)].ident]
    IN  IF "cites" \in DOMAIN node THEN node["cites"] ELSE <<>>

\* descendants: the loop over idents calls _descendants; render_tree calls
\* _render_tree for its root
TreeRoot ==
    /\ TreeWalking
    /\ gb.stack = <<>>
    /\ gb.r <= Len(gb.idents)
    /\ gb' = call([gb EXCEPT !.r = @ + 1], gb.idents[gb.r])
    /\ UNCHANGED not_gb

\* The body of the loop over node['cites'] for a resolved cite: the
\* recursive call (after out_idents.add in _descendants)
TreeResolved ==
    /\ TreeWalking
    /\ gb.stack # <<>>
    /\ gb.stack[Len(gb.stack)].i <= Len(TopCites)
    /\ LET cite == TopCites[gb.stack[Len(gb.stack)].i]
       IN  /\ "resolved" \in DOMAIN cite /\ cite["resolved"]
           /\ gb' = call([next_cite_of_top(gb) EXCEPT
                            !.out_idents = IF gb.pc = "descendants" THEN @ \cup {cite["id"]}
                                           ELSE @],
                         cite["id"])
    /\ UNCHANGED not_gb

\* ... and for any other cite: a warning when it has an id
TreeUnresolved ==
    /\ TreeWalking
    /\ gb.stack # <<>>
    /\ gb.stack[Len(gb.stack)].i <= Len(TopCites)
    /\ LET cite == TopCites[gb.stack[Len(gb.stack)].i]
       IN  /\ ~("resolved" \in DOMAIN cite /\ cite["resolved"])
           /\ gb' = [next_cite_of_top(gb) EXCEPT !.ulog =
                        IF "id" \in DOMAIN cite
                        THEN Append(@, Message("warn", "unresolved citation",
                                               <<gb.stack[Len(gb.stack)].ident, cite["id"]>>))
                        ELSE @]
    /\ UNCHANGED not_gb

\* The return of a call whose loop is over
TreeReturn ==
    /\ TreeWalking
    /\ gb.stack # <<>>
    /\ gb.stack[Len(gb.stack)].i > Len(TopCites)
    /\ gb' = [gb EXCEPT !.stack = SubSeq(@, 1, Len(@) - 1)]
    /\ UNCHANGED not_gb

\* The return of descendants or render_tree
TreeDone ==
    /\ TreeWalking
    /\ gb.stack = <<>>
    /\ gb.r > Len(gb.idents)
    /\ gb' = [gb EXCEPT !.pc = "returned"]
    /\ UNCHANGED not_gb

NextTree ==
    \/ TreeRoot
    \/ TreeResolved
    \/ TreeUnresolved
    \/ TreeReturn
    \/ TreeDone

SpecTree == InitTree /\ [][NextTree]_vars

\* C18: computing the descendants of a set of entries (descendants, or
\* render_tree for one root) terminates for every entry set, also when an
\* entry cites itself or two entries cite each other: the walk never runs
\* into the limit of the call stack.
C18_WalkTerminates == gb.pc # "RecursionError"

---------------------------------------------------------------------------
(* Properties of the graph of the descriptions' citations *)

\* The markers of A's description
MarkerRefs(A) == 1..Len(entries[A].description)

\* The extraction is over: the link loop is about to start, runs or has ended
Extracted == pc \in {"reindex", "link", "done", "KeyError"}

\* C19: the graph is built only after the citations of the descriptions
\* have been appended and the index has been rebuilt: once the extraction
\* is over every marker has its citation among its entry's cites, the link
\* loop runs on the index of those entries, and in the final graph every
\* marker of an entry A whose ident is the ident of a loaded entry B has
\* given the edge A -> B.
C19_MarkerEdge ==
    /\ Extracted =>
        \A A \in Refs : \A k \in MarkerRefs(A) :
            description_citation(entries[A].description[k]) \in Range(entries[A].cites)
    /\ pc = "link" => indices = _create_indices(entries)
    /\ Linked =>
        \A A, B \in Refs : \A k \in MarkerRefs(A) :
            entries[A].description[k].ident = entries[B].ident => HasEdge(A, B)

\* A final graph with the edge of a marker that names another entry, from
\* an entry whose only citation is the one of its description
C19_Witness ==
    /\ pc = "done"
    /\ \E A, B \in Refs : \E k \in MarkerRefs(A) :
        /\ entries[A].ident # entries[B].ident
        /\ entries[A].description[k].ident = entries[B].ident
        /\ Len(entries[A].cites) = 1
        /\ entries[A].cites[1].why = "description"
        /\ HasEdge(A, B)


\* The ident of the marker [doi:X] and of the marker [arxiv:Y], as group 1
\* of IN_TEXT_CITATION_RE gives it
DoiShape(X) == "doi:" \o X
ArxivShape(Y) == "arxiv:" \o Y

\* C20: a marker [doi:X] (or [arxiv:Y]) of a description is resolved among
\* the DOIs (or arXiv ids): when a loaded entry has the DOI X (or the arXiv
\* id Y), the final graph has the edge from the describing entry to it.
C20_ShapedMarkerEdge ==
    Linked =>
        \A A, B \in Refs : \A k \in MarkerRefs(A) :
            /\ entries[B].doi # None
                    /\ entries[A].description[k].ident = DoiShape(entries[B].doi)
                => HasEdge(A, B)
            /\ entries[B].arxiv # None
                    /\ entries[A].description[k].ident = ArxivShape(entries[B].arxiv)
                => HasEdge(A, B)

---------------------------------------------------------------------------
(* Properties of the short references of a description *)

\* The markers the description of entry a was written with
GbPieces ==
    CHOOSE d \in UNION {[1..m -> GbMarkers] : m \in 0..MaxGbMarkers} :
        join(d) = gb.my_meta[ID_A]["description"]

SHORT_1 == <<"[", "=", "1", "]">>
REF_1 == <<"(", "r", "e", "f", ".", " ", "1", ")">>

\* The cites of entry a that have an id and the number 1, declared (an int)
\* or extracted from a marker (the digits of the marker)
GbNumbered ==
    {k \in 1..Len(GbEntryCites) :
        /\ "id" \in DOMAIN GbEntryCites[k]
        /\ "num" \in DOMAIN GbEntryCites[k]
        /\ GbEntryCites[k]["num"] \in {PyInt(1), PyStr(<<"1">>)}}

\* ... and the declared ones only
GbNumberedInt == {k \in GbNumbered : GbEntryCites[k]["num"] = PyInt(1)}

\* What a piece of the description is replaced by when the citations
\* numbered 1 are the cites `numbered` of entry a
ShortResolved(piece, numbered) ==
    IF piece # SHORT_1 THEN piece
    ELSE IF numbered = {} THEN REF_1
    ELSE <<"[">> \o GbEntryCites[CHOOSE k \in numbered : \A j \in numbered : k <= j]["id"]
             \o <<"=", "1", "]">>

ShortWarnings ==
    {r \in 1..Len(gb.ulog) : gb.ulog[r].text = "short reference not found"}

ShortPieces == {k \in 1..Len(GbPieces) : GbPieces[k] = SHORT_1}

\* The description of entry a after resolve_crossrefs, with the short
\* references resolved among the cites `numbered`
ShortsResolvedAmong(numbered) ==
    /\ gb.entries[ID_A]["description"] =
            join([k \in 1..Len(GbPieces) |-> ShortResolved(GbPieces[k], numbered)])
    /\ Cardinality(ShortWarnings) = IF numbered = {} THEN Cardinality(ShortPieces) ELSE 0

GbDescribed == "description" \in DOMAIN gb.my_meta[ID_A]

\* C21: every short marker [=N] of an entry's description is replaced by
\* [id=N] with the id of the entry's citation numbered N, whether that was
\* declared or extracted from a marker [id=N] of the same description, and
\* by (ref. N) with one warning when the entry has no such citation; the
\* item is done without an error in both cases.
C21_ShortResolved == GbItemDone /\ GbDescribed => ShortsResolvedAmong(GbNumbered)

\* The same with the declared citations only
C21_ShortResolvedDeclared == GbItemDone /\ GbDescribed => ShortsResolvedAmong(GbNumberedInt)

---------------------------------------------------------------------------
(* Properties of the paragraphs of a description *)

\* t[s..e] is a run of two or more newlines that no newline precedes or
\* follows
NewlineRun(t, s, e) ==
    /\ s < e
    /\ \A k \in s..e : t[k] = "\n"
    /\ s > 1 => t[s - 1] # "\n"
    /\ e < Len(t) => t[e + 1] # "\n"

NewlineRuns(t) == {r \in (1..Len(t)) \X (1..Len(t)) : NewlineRun(t, r[1], r[2])}

RunsInOrder(t) ==
    CHOOSE rs \in [1..Cardinality(NewlineRuns(t)) -> NewlineRuns(t)] :
        \A i, j \in DOMAIN rs : i < j => rs[i][1] < rs[j][1]

\* The texts between the runs of t: one more than there are runs
ParagraphsBetween(t, rs) ==
    [k \in 1..(Len(rs) + 1) |->
        SubSeq(t, IF k = 1 THEN 1 ELSE rs[k - 1][2] + 1,
                  IF k > Len(rs) THEN Len(t) ELSE rs[k][1] - 1)]

ParagraphsOf(t) == ParagraphsBetween(t, RunsInOrder(t))

\* The text of the Text tokens of a paragraph has no newline
NoNewline(parts) ==
    \A k \in DOMAIN parts :
        "content" \in DOMAIN parts[k] => \A j \in DOMAIN parts[k].content :
                                            parts[k].content[j] # "\n"

\* C22: parse_description splits a text at every run of two or more
\* newlines, once per run however long it is, so the paragraphs are the
\* texts between the runs (none of them empty or starting with the space of
\* a newline because of a longer run), and a single newline inside a
\* paragraph is a space in its tokens.
C22_ParagraphsAtRuns ==
    sc.pc = "parsed" =>
        /\ sc.raw_paras = ParagraphsOf(sc.text)
        /\ Len(sc.paragraphs) = Len(sc.raw_paras)
        /\ \A k \in DOMAIN sc.paragraphs : NoNewline(sc.paragraphs[k])

\* The same for the texts whose runs of newlines are of two
C22_ParagraphsAtPairs ==
    sc.pc = "parsed" /\ (\A r \in NewlineRuns(sc.text) : r[2] = r[1] + 1) =>
        /\ sc.raw_paras = ParagraphsOf(sc.text)
        /\ Len(sc.paragraphs) = Len(sc.raw_paras)
        /\ \A k \in DOMAIN sc.paragraphs : NoNewline(sc.paragraphs[k])

---------------------------------------------------------------------------
(* Properties of the identifier index *)

\* How often x is in the list s
Count(s, x) == Cardinality({k \in 1..Len(s) : s[k] = x})

\* C24: in the index built from the entries every key of by_doi maps to an
\* entry with that DOI, every key of by_arxivid to an entry with that arXiv
\* id and every key of by_ident to an entry with that ident; the keys are
\* the DOIs, arXiv ids and idents of the entries, a null one adding none;
\* and every entry is once in the list of its own file and in no other.
C24_IndexSound ==
    pc # "index" =>
        /\ \A k \in DOMAIN indices.by_doi : entries[indices.by_doi[k]].doi = k
        /\ \A k \in DOMAIN indices.by_arxivid : entries[indices.by_arxivid[k]].arxiv = k
        /\ \A k \in DOMAIN indices.by_ident : entries[indices.by_ident[k]].ident = k
        /\ DOMAIN indices.by_doi = {entries[A].doi : A \in Refs} \ {None}
        /\ DOMAIN indices.by_arxivid = {entries[A].arxiv : A \in Refs} \ {None}
        /\ DOMAIN indices.by_ident = {entries[A].ident : A \in Refs}
        /\ DOMAIN indices.by_fn = {entries[A].fn : A \in Refs}
        /\ \A A \in Refs : \A fn \in DOMAIN indices.by_fn :
                Count(indices.by_fn[fn], A) = IF fn = entries[A].fn THEN 1 ELSE 0

\* An index of two entries of two files that have the same DOI and no
\* arXiv id
C24_Witness ==
    /\ pc = "resolve"
    /\ \E A, B \in Refs :
        /\ A < B
        /\ entries[A].doi # None /\ entries[A].doi = entries[B].doi
        /\ entries[A].arxiv = None /\ entries[B].arxiv = None
        /\ entries[A].fn # entries[B].fn
        /\ indices.by_doi[entries[A].doi] = A
        /\ indices.by_fn[entries[B].fn] = <<B>>


\* C27: every node of the graph the link loop builds, the source and the
\* target of every edge, is a key of by_ident, so the lookup of a
\* successor's entry in _create_indices_2 never fails, whatever idents and
\* DOIs the entries share and whatever citations stay unresolved.
C27_NodesIndexed ==
    /\ pc \in {"link", "done"} => Nodes(cite_network) \subseteq DOMAIN indices.by_ident
    /\ pc # "KeyError"

\* The end of a run with an edge, two entries of one ident, and a citation
\* of an ident that no entry has
C27_Witness ==
    /\ pc = "done"
    /\ cite_network # <<>>
    /\ \E A, B \in Refs : A # B /\ entries[A].ident = entries[B].ident
    /\ \E c \in CiteRefs :
        /\ Cite(c[1], c[2]).target_ident.target_type = "ident"
        /\ Cite(c[1], c[2]).target_ident.ident \notin DOMAIN indices.by_ident

---------------------------------------------------------------------------
(* Properties of the entries resolve_crossrefs returns *)

\* resolve_crossrefs has returned
GbResolved == gb.pc \in {"done", "renderers"}

\* The cites of the entry of a key of entries
GbCitesOf(ident) ==
    IF "cites" \in DOMAIN gb.entries[ident] THEN gb.entries[ident]["cites"] ELSE <<>>

\* C29: when resolve_crossrefs has returned, every cite with an id has the
\* flag `resolved`, and the id of every cite flagged resolved is a key of
\* the returned entries, an entry the user gave or a stub; every entry the
\* user gave is still there under its key, and no stub has taken its place.
C29_ResolvedInEntries ==
    GbResolved =>
        /\ \A ident \in DOMAIN gb.entries : \A k \in DOMAIN GbCitesOf(ident) :
            LET cite == GbCitesOf(ident)[k]
            IN  "id" \in DOMAIN cite =>
                    /\ "resolved" \in DOMAIN cite
                    /\ cite["resolved"] => cite["id"] \in DOMAIN gb.entries
        /\ \A ident \in DOMAIN gb.my_meta :
            /\ ident \in DOMAIN gb.entries
            /\ "input_fn" \in DOMAIN gb.entries[ident]
            /\ gb.entries[ident]["input_fn"] = gb.my_meta[ident]["input_fn"]
            /\ \A j \in DOMAIN gb.stubs : gb.stubs[j][1] # ident

\* Returned entries in which entry a has a cite resolved to an entry of the
\* user and one resolved to a stub
C29_Witness ==
    /\ gb.pc = "done"
    /\ \E k, l \in DOMAIN GbCitesOf(ID_A) :
        /\ GbCitesOf(ID_A)[k]["id"] = ID_A /\ GbCitesOf(ID_A)[k]["resolved"]
        /\ GbCitesOf(ID_A)[l]["id"] = ID_DOI_1 /\ GbCitesOf(ID_A)[l]["resolved"]
        /\ ID_DOI_1 \in DOMAIN gb.entries
        /\ ID_DOI_1 \notin DOMAIN gb.my_meta

---------------------------------------------------------------------------
(* gitbib2.py: merge_title.  An Optional value is <<>> for None and <<v>>  *)
(* for v; t is the function's state: title, the log, the printed lines and *)
(* whether an assert has failed.                                           *)

\* The variables that the functions of g2 leave alone
not_g2 == <<entries, indices, cite_network, stdout, pc, li, lj, gb, sc>>
NotG2Idle ==
    /\ gb = Idle
    /\ sc = Idle
    /\ entries = <<>>
    /\ indices = NoIndices
    /\ cite_network = <<>>
    /\ stdout = <<>>
    /\ pc = Idle
    /\ li = 0
    /\ lj = 0

NoData == <<>>
Fetched(data) == <<data>>

\* How many titles the Crossref data of an entry has at most
MaxTitles == 2

RawEntry(user_data, crossref_data, arxiv_data) ==
    [user_data |-> user_data, crossref_data |-> crossref_data, arxiv_data |-> arxiv_data]

\* RawEntry.ident
RawEntry_ident(entry) == entry.user_data["ident"]

\* `if entry.crossref_data is not None:` the first title of Crossref
title_crossref(entry, t) ==
    IF entry.crossref_data = NoData THEN t
    ELSE IF Len(entry.crossref_data[1].title) = 0
    THEN [t EXCEPT !.printed = Append(@, "Crossref has returned no title")]
    ELSE IF entry.crossref_data[1].title[1] = ""
    THEN [t EXCEPT !.raised = TRUE]
    ELSE [t EXCEPT !.title = Fetched(entry.crossref_data[1].title[1]),
                   !.printed = IF Len(entry.crossref_data[1].title) > 1
                               THEN Append(@, "Crossref has returned multiple titles")
                               ELSE @]

\* `if entry.arxiv_data is not None:` the title of arXiv when there is none
\* yet; low: fuzz.ratio of the two titles is below 90
title_arxiv(entry, low, t) ==
    IF entry.arxiv_data = NoData \/ t.raised THEN t
    ELSE IF t.title # NoData
    THEN [t EXCEPT !.ulog = IF low THEN Append(@, Message("warn", "Titles differ", RawEntry_ident(entry)))
                            ELSE @]
    ELSE IF entry.arxiv_data[1].title = ""
    THEN [t EXCEPT !.raised = TRUE]
    ELSE [t EXCEPT !.title = Fetched(entry.arxiv_data[1].title)]

\* title_user that keeps a title of Crossref or arXiv
title_user_last(entry, t) ==
    IF "title" \notin DOMAIN entry.user_data \/ t.raised \/ t.title # NoData THEN t
    ELSE [t EXCEPT !.title = Fetched(entry.user_data["title"])]

\* `if 'title' in entry.user_data:`
title_user(entry, t) ==
    IF "title" \notin DOMAIN entry.user_data \/ t.raised THEN t
    ELSE [t EXCEPT !.title = Fetched(entry.user_data["title"]),
                   !.ulog = IF t.title # NoData
                            THEN Append(@, Message("warn", "Using user-specified title",
                                                   RawEntry_ident(entry)))
                            ELSE @]

\* `if title is None:`
title_default(entry, t) ==
    IF t.title # NoData \/ t.raised THEN t
    ELSE [t EXCEPT !.title = Fetched(""),
                   !.ulog = Append(@, Message("error", "No title", RawEntry_ident(entry)))]

merge_title(entry, low) ==
    title_default(entry,
        title_user(entry,
            title_arxiv(entry, low,
                title_crossref(entry,
                    [title |-> NoData, ulog |-> <<>>, printed |-> <<>>, raised |-> FALSE]))))

\* The titles of the sources: as fetched they are not empty
CrossrefTitles == UNION {[1..m -> {"c", "d"}] : m \in 0..MaxTitles}

\* The RawEntry of ident a: with or without a title of the user, Crossref
\* data and arXiv data
InitMerge ==
    /\ \E u \in {[ident |-> "a", fn |-> "f1"], [ident |-> "a", fn |-> "f1", title |-> "u"],
                 [ident |-> "a", fn |-> "f1", title |-> "c"]} :
       \E c \in {NoData} \cup {Fetched([title |-> ts]) : ts \in CrossrefTitles} :
       \E x \in {NoData, Fetched([title |-> "c"]), Fetched([title |-> "x"])} :
            g2 = [pc |-> "merge_title", entry |-> RawEntry(u, c, x)]
    /\ NotG2Idle

\* main:522, title=merge_title(entry, ulog=ulog); fuzz.ratio is 100 for
\* equal titles and may be below 90 for others
MergeTitle ==
    /\ g2.pc = "merge_title"
    /\ \E low \in BOOLEAN :
        /\ low => /\ g2.entry.crossref_data # NoData
                  /\ g2.entry.arxiv_data # NoData
                  /\ Len(g2.entry.crossref_data[1].title) > 0
                  /\ g2.entry.crossref_data[1].title[1] # g2.entry.arxiv_data[1].title
        /\ g2' = [pc |-> IF merge_title(g2.entry, low).raised THEN "AssertionError" ELSE "merged",
                  entry |-> g2.entry,
                  title |-> merge_title(g2.entry, low).title,
                  ulog |-> merge_title(g2.entry, low).ulog,
                  printed |-> merge_title(g2.entry, low).printed]
    /\ UNCHANGED not_g2

NextMerge == MergeTitle

SpecMerge == InitMerge /\ [][NextMerge]_vars

---------------------------------------------------------------------------
(* Properties of the merged title *)

\* The title the precedence user, Crossref, arXiv gives, if any
PreferredTitle(entry) ==
    IF "title" \in DOMAIN entry.user_data THEN Fetched(entry.user_data["title"])
    ELSE IF entry.crossref_data # NoData /\ Len(entry.crossref_data[1].title) > 0
    THEN Fetched(entry.crossref_data[1].title[1])
    ELSE IF entry.arxiv_data # NoData THEN Fetched(entry.arxiv_data[1].title)
    ELSE NoData

TitleErrors == {r \in 1..Len(g2.ulog) : g2.ulog[r].level = "error"}

\* C25: the merged title is the user's title when there is one, otherwise
\* the first title of Crossref when its data has one, otherwise the title of
\* arXiv; when no source has a title it is the empty string and one error
\* is logged; merge_title returns in every case.
C25_TitlePrecedence ==
    /\ g2.pc # "AssertionError"
    /\ g2.pc = "merged" =>
        /\ PreferredTitle(g2.entry) # NoData =>
                g2.title = PreferredTitle(g2.entry) /\ TitleErrors = {}
        /\ PreferredTitle(g2.entry) = NoData =>
                g2.title = Fetched("") /\ Cardinality(TitleErrors) = 1

\* A title of Crossref that differs from arXiv's and is overridden by the
\* user's
C25_Witness ==
    /\ g2.pc = "merged"
    /\ g2.entry.crossref_data # NoData
    /\ g2.entry.arxiv_data # NoData
    /\ Len(g2.entry.crossref_data[1].title) = 2
    /\ g2.entry.crossref_data[1].title[1] = "d"
    /\ g2.entry.arxiv_data[1].title = "x"
    /\ g2.title = Fetched("u")
    /\ Len(g2.ulog) = 2

---------------------------------------------------------------------------
(* gitbib2.py: the two cache scopes of main (steps 2 and 3).  The cache is *)
(* db, the committed rows with their data, and session, the rows added in  *)
(* the open scope; a query sees both (the session flushes before a query). *)
(* st is the state the calls pass on; st.data is a call's result.          *)

\* How many entries the user has
MaxFetchEntries == 2

\* The answer of the service for a key: its metadata, or NoData when the
\* fetcher raises NoCrossref or NoArxiv
_fetch_crossref(doi, st) == st.net[Row("crossref", doi)]
_fetch_arxiv(arxivid, st) == st.net[Row("arxiv", arxivid)]

\* session.query(...).one(): the row's data, or NoData for NoResultFound
query(st, row) ==
    IF row \in DOMAIN st.session THEN Fetched(st.session[row])
    ELSE IF row \in DOMAIN st.db THEN Fetched(st.db[row])
    ELSE NoData

\* The `except NoResultFound:` block: the fetch, and session.add of the
\* row when the fetcher returns
fetch_and_add(st, row, answer, ident) ==
    IF answer = NoData
    THEN [st EXCEPT !.requests = Append(@, row),
                    !.ulog = Append(@, Message("error", "request failed", ident)),
                    !.data = NoData]
    ELSE [st EXCEPT !.requests = Append(@, row),
                    !.session = (row :> answer[1]) @@ @,
                    !.data = answer]

\* get_and_cache_crossref that asks the service whatever the cache holds
get_and_cache_crossref_always(doi, ident, st) ==
    fetch_and_add(st, Row("crossref", doi), _fetch_crossref(doi, st), ident)

get_and_cache_crossref(doi, ident, st) ==
    IF query(st, Row("crossref", doi)) # NoData
    THEN [st EXCEPT !.data = query(st, Row("crossref", doi))]
    ELSE fetch_and_add(st, Row("crossref", doi), _fetch_crossref(doi, st), ident)

get_and_cache_arxiv(arxivid, ident, st) ==
    IF query(st, Row("arxiv", arxivid)) # NoData
    THEN [st EXCEPT !.data = query(st, Row("arxiv", arxivid))]
    ELSE fetch_and_add(st, Row("arxiv", arxivid), _fetch_arxiv(arxivid, st), ident)

\* A call of get_and_cache_* and what it returned, for the record
called(row, st) == [st EXCEPT !.calls = Append(@, [row |-> row, data |-> st.data])]

\* entry.crossref_data = get_and_cache_crossref(...), the entry in data
set_crossref_data(entry, st) ==
    [called(Row("crossref", st.doi), st) EXCEPT !.data = [entry EXCEPT !.crossref_data = st.data]]

set_arxiv_data(entry, st) ==
    [called(Row("arxiv", entry.user_data["arxiv"]), st)
        EXCEPT !.data = [entry EXCEPT !.arxiv_data = st.data]]

user_spec_doi(entry, st) ==
    IF "doi" \in DOMAIN entry.user_data
    THEN set_crossref_data(entry,
            get_and_cache_crossref(entry.user_data["doi"], RawEntry_ident(entry),
                                   [st EXCEPT !.doi = entry.user_data["doi"]]))
    ELSE [st EXCEPT !.data = entry]

user_spec_arxiv(st) ==
    IF "arxiv" \in DOMAIN st.data.user_data
    THEN set_arxiv_data(st.data,
            get_and_cache_arxiv(st.data.user_data["arxiv"], RawEntry_ident(st.data), st))
    ELSE st

_fetch_data_for_user_spec_id(entry, st) == user_spec_arxiv(user_spec_doi(entry, st))

\* 3.1 arxiv -> crossref; the DOIs of the model are digits, which lower()
\* leaves as they are
_fetch_data_for_fetched_id(entry, st) ==
    IF entry.arxiv_data = NoData \/ "doi" \notin DOMAIN entry.arxiv_data[1]
    THEN [st EXCEPT !.data = entry]
    ELSE IF entry.crossref_data # NoData
    THEN [st EXCEPT !.data = entry,
                    !.raised = entry.arxiv_data[1]["doi"] # entry.crossref_data[1]["DOI"]]
    ELSE set_crossref_data(entry,
            get_and_cache_crossref(entry.arxiv_data[1]["doi"], RawEntry_ident(entry),
                                   [st EXCEPT !.doi = entry.arxiv_data[1]["doi"]]))

\* The metadata of the services and of rows stored by an earlier run
CrossrefData(doi, v) == [DOI |-> doi, v |-> v]
ArxivData(v) == {[v |-> v], [v |-> v, doi |-> "1"], [v |-> v, doi |-> "2"]}

FetchRows == {Row("crossref", "1"), Row("crossref", "2"), Row("arxiv", "x")}

\* What the services answer
FetchNetworks ==
    {n \in [FetchRows -> {NoData} \cup {Fetched(CrossrefData(d, "fresh")) : d \in {"1", "2"}}
                                  \cup {Fetched(a) : a \in ArxivData("fresh")}] :
        /\ \A d \in {"1", "2"} :
            n[Row("crossref", d)] \in {NoData, Fetched(CrossrefData(d, "fresh"))}
        /\ n[Row("arxiv", "x")] \in {NoData} \cup {Fetched(a) : a \in ArxivData("fresh")}}

\* The cache at the start: nothing, or rows of an earlier run
FetchCaches ==
    {EmptyDict, Row("crossref", "1") :> CrossrefData("1", "stored"),
     Row("arxiv", "x") :> [v |-> "stored", doi |-> "2"]}

\* The user's data of an entry: with or without doi and arxiv
FetchUserData(i) ==
    {[ident |-> i], [ident |-> i, doi |-> "1"], [ident |-> i, arxiv |-> "x"],
     [ident |-> i, doi |-> "1", arxiv |-> "x"]}

\* main at step 2, in the block of the first `with c.scoped_session()`
InitFetch ==
    /\ \E n \in 1..MaxFetchEntries : \E net \in FetchNetworks : \E db \in FetchCaches :
       \E us \in [1..n -> UNION {FetchUserData(i) : i \in Idents}] :
            /\ \A k \in 1..n : us[k].ident = IdentOrder[k]
            /\ g2 = [pc |-> "user_spec", entries |-> [k \in 1..n |-> RawEntry(us[k], NoData, NoData)],
                     k |-> 1, db0 |-> db, db |-> db, session |-> EmptyDict, net |-> net,
                     requests |-> <<>>, calls |-> <<>>, ulog |-> <<>>,
                     scope1 |-> "open", scope2 |-> "unopened"]
    /\ NotG2Idle

\* The state the calls of a step pass on
FetchSt ==
    [db |-> g2.db, session |-> g2.session, net |-> g2.net, requests |-> g2.requests,
     calls |-> g2.calls, ulog |-> g2.ulog, data |-> NoData, doi |-> None, raised |-> FALSE]

\* ... and main after the call for entry k
fetched(g, st) ==
    [g EXCEPT !.entries[g.k] = st.data, !.k = @ + 1, !.session = st.session,
              !.requests = st.requests, !.calls = st.calls, !.ulog = st.ulog,
              !.pc = IF st.raised THEN "raised" ELSE @]

\* main:506-507, one entry of the list comprehension
FetchUserSpec ==
    /\ g2.pc = "user_spec"
    /\ g2.k <= Len(g2.entries)
    /\ g2' = fetched(g2, _fetch_data_for_user_spec_id(g2.entries[g2.k], FetchSt))
    /\ UNCHANGED not_g2

\* The end of the first scope (commit, close) and the start of the second
FetchCommit1 ==
    /\ g2.pc = "user_spec"
    /\ g2.k > Len(g2.entries)
    /\ g2' = [g2 EXCEPT !.db = g2.session @@ @, !.session = EmptyDict, !.scope1 = "committed",
                        !.scope2 = "open", !.k = 1, !.pc = "fetched_id"]
    /\ UNCHANGED not_g2

\* main:511-512, one entry of the list comprehension
FetchFetchedId ==
    /\ g2.pc = "fetched_id"
    /\ g2.k <= Len(g2.entries)
    /\ g2' = fetched(g2, _fetch_data_for_fetched_id(g2.entries[g2.k], FetchSt))
    /\ UNCHANGED not_g2

\* The end of the second scope when its block returns
FetchCommit2 ==
    /\ g2.pc = "fetched_id"
    /\ g2.k > Len(g2.entries)
    /\ g2' = [g2 EXCEPT !.db = g2.session @@ @, !.session = EmptyDict, !.scope2 = "committed",
                        !.pc = "merge"]
    /\ UNCHANGED not_g2

\* The end of the second scope that undoes the first scope as well
FetchRollbackBoth ==
    /\ g2.pc = "raised"
    /\ g2' = [g2 EXCEPT !.db = g2.db0, !.session = EmptyDict, !.scope2 = "rolled_back",
                        !.pc = "ValueError"]
    /\ UNCHANGED not_g2

\* The end of the second scope when its block raises: rollback, close, and
\* main ends with the exception
FetchRollback2 ==
    /\ g2.pc = "raised"
    /\ g2' = [g2 EXCEPT !.session = EmptyDict, !.scope2 = "rolled_back", !.pc = "ValueError"]
    /\ UNCHANGED not_g2

NextFetch ==
    \/ FetchUserSpec
    \/ FetchCommit1
    \/ FetchFetchedId
    \/ FetchCommit2
    \/ FetchRollback2

SpecFetch == InitFetch /\ [][NextFetch]_vars

---------------------------------------------------------------------------
(* Properties of the cache scopes of gitbib2.main *)

\* The rows of the user's own dois and arxiv ids
UserSpecRows ==
    {Row("crossref", g2.entries[k].user_data["doi"]) :
        k \in {j \in DOMAIN g2.entries : "doi" \in DOMAIN g2.entries[j].user_data}}
    \cup {Row("arxiv", g2.entries[k].user_data["arxiv"]) :
        k \in {j \in DOMAIN g2.entries : "arxiv" \in DOMAIN g2.entries[j].user_data}}

\* The cache as the first scope leaves it: the rows of the earlier runs and
\* the rows of the user's ids that the services have answered
FirstScopeRows == DOMAIN g2.db0 \cup {row \in UserSpecRows : g2.net[row] # NoData}

FetchCache == g2.session @@ g2.db

---------------------------------------------------------------------------
(* gitbib2.py: the sorted listings of Indices; gitbib.py: the sorted idents *)
(* of Renderfunc.  A date is <<year, month, day>>, a title a str.          *)

\* How many entries a listing has
MaxSortEntries == 2

\* Python's order of two tuples of integers, and of two str
RECURSIVE tuple_less(_, _)
tuple_less(a, b) ==
    IF a = <<>> THEN b # <<>>
    ELSE IF b = <<>> THEN FALSE
    ELSE IF Head(a) # Head(b) THEN Head(a) < Head(b)
    ELSE tuple_less(Tail(a), Tail(b))

\* ord() of the characters of the titles
ord(c) == CASE c = "a" -> 97 [] c = "b" -> 98 [] c = "z" -> 122

str_less(s, t) == tuple_less([k \in DOMAIN s |-> ord(s[k])], [k \in DOMAIN t |-> ord(t[k])])

\* Entry.first_published
first_published(entry) ==
    IF entry.published_online = NoData /\ entry.published_print = NoData THEN <<0, 0, 0>>
    ELSE IF entry.published_print = NoData THEN entry.published_online[1]
    ELSE IF entry.published_online = NoData THEN entry.published_print[1]
    ELSE IF tuple_less(entry.published_print[1], entry.published_online[1])
    THEN entry.published_print[1]
    ELSE entry.published_online[1]

\* gitbib.py: sort_entry_date, sort_entry_title and sort_entry_key, on the
\* entry of the dict with the keys it has
ZZZZ == <<"z", "z", "z", "z">>

sort_entry_date(entry) ==
    IF entry.published_online # NoData THEN entry.published_online[1]
    ELSE IF entry.published_print # NoData THEN entry.published_print[1]
    ELSE <<1970, 1, 1>>

sort_entry_title(entry) == IF entry.title # NoData THEN entry.title[1] ELSE ZZZZ

\* sort_entry_key: the order of the tuples (date, title)
sort_entry_key_less(x, y) ==
    IF sort_entry_date(x) # sort_entry_date(y)
    THEN tuple_less(sort_entry_date(x), sort_entry_date(y))
    ELSE str_less(sort_entry_title(x), sort_entry_title(y))

\* The order of two elements under the key function of the sort
key_less(key, x, y) ==
    IF key = "first_published" THEN tuple_less(first_published(x), first_published(y))
    ELSE sort_entry_key_less(x, y)

\* sorted(list, key=..., reverse=True): the sort is stable, also in
\* reverse, so x goes before the first element of the sorted list whose
\* key is less than its own
RECURSIVE insert_desc(_, _, _)
insert_desc(sorted, x, key) ==
    IF sorted = <<>> THEN <<x>>
    ELSE IF key_less(key, Head(sorted), x) THEN <<x>> \o sorted
    ELSE <<Head(sorted)>> \o insert_desc(Tail(sorted), x, key)

RECURSIVE sorted_desc(_, _, _)
sorted_desc(list, k, key) ==
    IF k = 0 THEN <<>>
    ELSE insert_desc(sorted_desc(list, k - 1, key), list[k], key)

\* Indices.get_sorted_by_fn and Indices.get_sorted_secondary_by_fn
get_sorted_by_fn(ix, fn, sort_by) ==
    IF sort_by = "file" THEN ix.by_fn[fn]
    ELSE IF sort_by = "first_published"
    THEN sorted_desc(ix.by_fn[fn], Len(ix.by_fn[fn]), "first_published")
    ELSE "ValueError"

get_sorted_secondary_by_fn(ix, fn, sort_by) ==
    IF sort_by = "file" THEN ix.secondary_by_fn[fn]
    ELSE IF sort_by = "first_published"
    THEN sorted_desc(ix.secondary_by_fn[fn], Len(ix.secondary_by_fn[fn]), "first_published")
    ELSE "ValueError"

\* Renderfunc.__init__: sorted(idents, reverse=True, key=sort_entry_key)
sorted_idents(idents) == sorted_desc(idents, Len(idents), "sort_entry_key")

SortDates == {<<2000, 1, 1>>, <<2001, 1, 1>>}
SortTitles == {<<"a">>, <<"b">>}

\* The entries of a file in the order of their declaration, with and
\* without dates and titles; the secondary list is another order of them
SortEntries(i) ==
    {[ident |-> i, published_online |-> o, published_print |-> p, title |-> t] :
        o \in {NoData} \cup {Fetched(d) : d \in SortDates},
        p \in {NoData, Fetched(<<2000, 1, 1>>)},
        t \in {NoData} \cup {Fetched(s) : s \in SortTitles}}

Reversed(s) == [k \in DOMAIN s |-> s[Len(s) + 1 - k]]

InitSort ==
    /\ \E n \in 1..MaxSortEntries :
       \E es \in [1..n -> UNION {SortEntries(i) : i \in Idents}] :
            /\ \A k \in 1..n : es[k].ident = IdentOrder[k]
            /\ g2 = [pc |-> "listing",
                     indices |-> [by_fn |-> ("f1" :> es), secondary_by_fn |-> ("f1" :> Reversed(es))]]
    /\ NotG2Idle

\* to_html_files: the two listings of a file under a sort policy
GetSorted ==
    /\ g2.pc = "listing"
    /\ \E sort_by \in {"file", "first_published"} :
        g2' = [pc |-> "sorted", indices |-> g2.indices, sort_by |-> sort_by,
               entries1 |-> get_sorted_by_fn(g2.indices, "f1", sort_by),
               entries2 |-> get_sorted_secondary_by_fn(g2.indices, "f1", sort_by)]
    /\ UNCHANGED not_g2

\* Renderfunc.__init__ on the same entries
RenderfuncSort ==
    /\ g2.pc = "listing"
    /\ g2' = [pc |-> "sorted", indices |-> g2.indices, sort_by |-> "sort_entry_key",
              entries1 |-> sorted_idents(g2.indices.by_fn["f1"]),
              entries2 |-> sorted_idents(g2.indices.secondary_by_fn["f1"])]
    /\ UNCHANGED not_g2

NextSort ==
    \/ GetSorted
    \/ RenderfuncSort

SpecSort == InitSort /\ [][NextSort]_vars

---------------------------------------------------------------------------
(* Properties of the sorted listings *)

\* x may stand before y in a listing by date, newest first, then by title,
\* an entry without title after the titled ones of its date
DateOf(x) == IF g2.sort_by = "sort_entry_key" THEN sort_entry_date(x) ELSE first_published(x)

MayPrecede(x, y) ==
    \/ tuple_less(DateOf(y), DateOf(x))
    \/ /\ DateOf(x) = DateOf(y)
       /\ \/ y.title = NoData
          \/ x.title # NoData /\ ~str_less(y.title[1], x.title[1])

IsPermutation(s, t) ==
    /\ Len(s) = Len(t)
    /\ \A x \in Range(s) \cup Range(t) : Count(s, x) = Count(t, x)

DateTitleOrdered(s) == \A i, j \in DOMAIN s : i < j => MayPrecede(s[i], s[j])

DateOrdered(s) == \A i, j \in DOMAIN s : i < j => ~tuple_less(DateOf(s[i]), DateOf(s[j]))

\* C23: under the policy first-published date descending the primary and
\* the secondary entries of a file are listed from newest to oldest,
\* entries of one date by title and one without title after the titled
\* ones; under the policy file they are listed in declaration order.
C23_SortedByDateThenTitle ==
    g2.pc = "sorted" =>
        /\ IsPermutation(g2.entries1, g2.indices.by_fn["f1"])
        /\ IsPermutation(g2.entries2, g2.indices.secondary_by_fn["f1"])
        /\ g2.sort_by = "file" =>
            /\ g2.entries1 = g2.indices.by_fn["f1"]
            /\ g2.entries2 = g2.indices.secondary_by_fn["f1"]
        /\ g2.sort_by # "file" =>
            DateTitleOrdered(g2.entries1) /\ DateTitleOrdered(g2.entries2)

\* The same without the order of the titles
C23_SortedByDate ==
    g2.pc = "sorted" =>
        /\ IsPermutation(g2.entries1, g2.indices.by_fn["f1"])
        /\ IsPermutation(g2.entries2, g2.indices.secondary_by_fn["f1"])
        /\ g2.sort_by = "file" =>
            /\ g2.entries1 = g2.indices.by_fn["f1"]
            /\ g2.entries2 = g2.indices.secondary_by_fn["f1"]
        /\ g2.sort_by # "file" => DateOrdered(g2.entries1) /\ DateOrdered(g2.entries2)

---------------------------------------------------------------------------
(* gitbib.py: Gitbib.renderers, the generator of the outputs, and the loop *)
(* of main that writes each of them.  A file name is a tuple of its        *)
(* characters.                                                            *)

\* How many output specifications the configuration has
MaxOutputs == 2

HTML == <<"h", "t", "m", "l">>
BIB == <<"b", "i", "b">>
INDEX_HTML == <<"i", "n", "d", "e", "x", ".", "h", "t", "m", "l">>

\* Gitbib.out_render_types and Gitbib.out_render_formats
out_render_types == {"all", "categories", "input-fn"}

out_render_formats == (HTML :> "text/html") @@ (BIB :> "application/x-bibtex")

\* re.match(r'[\w\-\.]+$', fn)
WordChars == {"a", "b", "d", "e", "h", "i", "l", "m", "n", "t", "x", "_", "0"}

fn_match(fn) == fn # <<>> /\ \A k \in DOMAIN fn : fn[k] \in WordChars \cup {"-", "."}

\* "{}.{}".format(fn, ofmt)
format_fn(fn, ofmt) == fn \o <<".">> \o ofmt

\* An output specification: its fn if it has one, its keys among the
\* output types, and the number of entries its selection gives
OutSpecs ==
    [fn : {NoData, Fetched(<<"a">>), Fetched(<<"i", "n", "d", "e", "x">>), Fetched(<<"a", "/">>)},
     types : SUBSET {"all", "categories"},
     idents : 0..1]

ulog_error(g, msg, what) == [g EXCEPT !.errors = Append(@, [msg |-> msg, fn |-> what]), !.i = @ + 1]

\* The body of the loop for one out_spec up to its first yield
renderers_out_spec(g, out_spec) ==
    IF out_spec.fn = NoData THEN ulog_error(g, "No output filename given", NoData)
    ELSE IF ~fn_match(out_spec.fn[1])
    THEN ulog_error(g, "Please use a filename that is only alphanumeric characters", out_spec.fn)
    ELSE IF out_spec.fn[1] \in g.fns THEN ulog_error(g, "Duplicate output filename!", out_spec.fn)
    ELSE IF Cardinality(out_spec.types \cap out_render_types) > 1
    THEN ulog_error([g EXCEPT !.fns = @ \cup {out_spec.fn[1]}],
                    "Too many output specifications given", out_spec.fn)
    ELSE IF Cardinality(out_spec.types \cap out_render_types) < 1
    THEN ulog_error([g EXCEPT !.fns = @ \cup {out_spec.fn[1]}],
                    "No output specification given", out_spec.fn)
    ELSE IF out_spec.idents > 0
    THEN [g EXCEPT !.fns = @ \cup {out_spec.fn[1]}, !.pc = "yield", !.todo = g.out_formats]
    ELSE [g EXCEPT !.fns = @ \cup {out_spec.fn[1]}, !.i = @ + 1,
                   !.warnings = Append(@, out_spec.fn[1])]

\* yield "{}.{}".format(fn, ofmt), ..., Renderfunc(fn, ofmt, ...), and main
\* opens the file of that name and writes it
renderers_yield(g, fn, ofmt) ==
    [g EXCEPT !.yielded = Append(@, [fn |-> format_fn(fn, ofmt), mime |-> out_render_formats[ofmt],
                                     render |-> [class |-> "Renderfunc", fn |-> fn, ofmt |-> ofmt]]),
              !.files = (format_fn(fn, ofmt) :> "Renderfunc") @@ @,
              !.todo = @ \ {ofmt},
              !.pc = IF g.todo = {ofmt} THEN "outputs" ELSE "yield",
              !.i = IF g.todo = {ofmt} THEN @ + 1 ELSE @]

\* yield "index.html", "text/html", IndexRenderfunc(...)
renderers_index(g) ==
    [g EXCEPT !.yielded = Append(@, [fn |-> INDEX_HTML, mime |-> "text/html",
                                     render |-> [class |-> "IndexRenderfunc"]]),
              !.files = (INDEX_HTML :> "IndexRenderfunc") @@ @,
              !.pc = "rendered"]

InitRender ==
    /\ \E n \in 1..MaxOutputs :
       \E outputs \in [1..n -> OutSpecs] :
       \E out_formats \in {{HTML, BIB}, {BIB}} :
            gb = [pc |-> "outputs", outputs |-> outputs, out_formats |-> out_formats, i |-> 1,
                  fns |-> {}, todo |-> {}, yielded |-> <<>>, files |-> <<>>,
                  errors |-> <<>>, warnings |-> <<>>]
    /\ NotGbIdle

RenderersOutSpec ==
    /\ gb.pc = "outputs"
    /\ gb.i <= Len(gb.outputs)
    /\ gb' = renderers_out_spec(gb, gb.outputs[gb.i])
    /\ UNCHANGED not_gb

\* The formats are the elements of a set: any order
RenderersYield ==
    /\ gb.pc = "yield"
    /\ \E ofmt \in gb.todo : gb' = renderers_yield(gb, gb.outputs[gb.i].fn[1], ofmt)
    /\ UNCHANGED not_gb

RenderersIndex ==
    /\ gb.pc = "outputs"
    /\ gb.i > Len(gb.outputs)
    /\ gb' = renderers_index(gb)
    /\ UNCHANGED not_gb

NextRender ==
    \/ RenderersOutSpec
    \/ RenderersYield
    \/ RenderersIndex

SpecRender == InitRender /\ [][NextRender]_vars

---------------------------------------------------------------------------
(* Properties of the outputs *)

YieldedNames == [k \in DOMAIN gb.yielded |-> gb.yielded[k].fn]

\* The specifications with a well-formed fn that no earlier one has
FirstOfFn(k) ==
    /\ gb.outputs[k].fn # NoData
    /\ fn_match(gb.outputs[k].fn[1])
    /\ \A j \in 1..(k - 1) : gb.outputs[j].fn # gb.outputs[k].fn

RepeatsFn(k) ==
    /\ gb.outputs[k].fn # NoData
    /\ fn_match(gb.outputs[k].fn[1])
    /\ \E j \in 1..(k - 1) : gb.outputs[j].fn = gb.outputs[k].fn

ErrorsOf(msg, fn) == Count(gb.errors, [msg |-> msg, fn |-> fn])

YieldedOf(fn) ==
    Cardinality({k \in DOMAIN gb.yielded :
        gb.yielded[k].render.class = "Renderfunc" /\ gb.yielded[k].render.fn = fn})

\* A repeated fn is skipped with an error, and so is a specification with
\* no or several output types
SkippedWithError ==
    \A k \in DOMAIN gb.outputs :
        /\ RepeatsFn(k) =>
            /\ ErrorsOf("Duplicate output filename!", gb.outputs[k].fn)
                = Cardinality({j \in DOMAIN gb.outputs :
                                    RepeatsFn(j) /\ gb.outputs[j].fn = gb.outputs[k].fn})
            /\ YieldedOf(gb.outputs[k].fn[1]) <= Cardinality(gb.out_formats)
        /\ FirstOfFn(k) /\ Cardinality(gb.outputs[k].types) > 1 =>
            /\ ErrorsOf("Too many output specifications given", gb.outputs[k].fn) = 1
            /\ YieldedOf(gb.outputs[k].fn[1]) = 0
        /\ FirstOfFn(k) /\ Cardinality(gb.outputs[k].types) < 1 =>
            /\ ErrorsOf("No output specification given", gb.outputs[k].fn) = 1
            /\ YieldedOf(gb.outputs[k].fn[1]) = 0

\* C30: renderers never yields two outputs of one file name: a repeated fn
\* and a specification with no or several output types are skipped with
\* an error, and index.html is yielded exactly once, as the last item.
C30_UniqueOutputNames ==
    gb.pc = "rendered" =>
        /\ \A j, k \in DOMAIN gb.yielded : j # k => gb.yielded[j].fn # gb.yielded[k].fn
        /\ SkippedWithError
        /\ Count(YieldedNames, INDEX_HTML) = 1
        /\ gb.yielded[Len(gb.yielded)].fn = INDEX_HTML

\* The same for the outputs of the specifications alone, with the index
\* as the last item
C30_UniqueSpecOutputNames ==
    gb.pc = "rendered" =>
        /\ \A j, k \in DOMAIN gb.yielded :
            /\ j # k
            /\ gb.yielded[j].render.class = "Renderfunc"
            /\ gb.yielded[k].render.class = "Renderfunc"
            => gb.yielded[j].fn # gb.yielded[k].fn
        /\ SkippedWithError
        /\ Cardinality({k \in DOMAIN gb.yielded : gb.yielded[k].render.class = "IndexRenderfunc"}) = 1
        /\ gb.yielded[Len(gb.yielded)].render.class = "IndexRenderfunc"
        /\ gb.yielded[Len(gb.yielded)].fn = INDEX_HTML

====
